---- MODULE Spec2Model ----
(***************************************************************************)
(* Model of home-mcp. The netdata plugins: the Prometheus exposition       *)
(* decoders (earnings, lighthouse, reth) and the earnings rate tracker     *)
(* with its durable state file. The MCP server (server.py): the Dozzle     *)
(* event stream reader, the four backend connectors, the normalizer       *)
(* parse_netdata_metric and the Netdata tools of call_tool. The five       *)
(* plugin scripts as processes seen through the lines they print.          *)
(*                                                                         *)
(* Strings are sequences of one-character strings, so that split, strip    *)
(* and float are computed the way the Python code computes them.           *)
(***************************************************************************)
EXTENDS Integers, Sequences, FiniteSets, TLC

\* ---------------------------------------------------------------------------
\* Bounds
\* ---------------------------------------------------------------------------

\* number of exposition lines in one scraped text
MaxLines == 2

\* ---------------------------------------------------------------------------
\* Python string primitives
\* ---------------------------------------------------------------------------

Whitespace == {" ", "\t", "\n", "\r"}

Digits == {"0", "1", "2", "3", "4", "5", "6", "7", "8", "9"}

DigitVal(c) ==
  CASE c = "0" -> 0 [] c = "1" -> 1 [] c = "2" -> 2 [] c = "3" -> 3
    [] c = "4" -> 4 [] c = "5" -> 5 [] c = "6" -> 6 [] c = "7" -> 7
    [] c = "8" -> 8 [] c = "9" -> 9

\* c in s
Contains(s, c) == \E i \in 1..Len(s) : s[i] = c

\* position of the first c in s, 0 when there is none
IndexOf(s, c) ==
  IF Contains(s, c)
    THEN CHOOSE i \in 1..Len(s) : s[i] = c /\ \A j \in 1..(i - 1) : s[j] # c
    ELSE 0

\* s.split(c): the pieces between the occurrences of c, empty pieces kept
RECURSIVE Split(_, _)
Split(s, c) ==
  LET i == IndexOf(s, c)
  IN IF i = 0
       THEN <<s>>
       ELSE <<SubSeq(s, 1, i - 1)>> \o Split(SubSeq(s, i + 1, Len(s)), c)

RECURSIVE LStrip(_)
LStrip(s) ==
  IF s # <<>> /\ s[1] \in Whitespace THEN LStrip(Tail(s)) ELSE s

RECURSIVE RStrip(_)
RStrip(s) ==
  IF s # <<>> /\ s[Len(s)] \in Whitespace
    THEN RStrip(SubSeq(s, 1, Len(s) - 1))
    ELSE s

\* s.strip()
Strip(s) == RStrip(LStrip(s))

\* length of the leading run of non-whitespace characters of s
RECURSIVE TokenLen(_)
TokenLen(s) ==
  IF s = <<>> \/ s[1] \in Whitespace THEN 0 ELSE 1 + TokenLen(Tail(s))

\* s.split(): the whitespace-delimited tokens of s
RECURSIVE SplitWS(_)
SplitWS(s) ==
  LET t == LStrip(s)
      n == TokenLen(t)
  IN IF t = <<>>
       THEN <<>>
       ELSE <<SubSeq(t, 1, n)>> \o SplitWS(SubSeq(t, n + 1, Len(t)))

\* s.startswith(p)
StartsWith(s, p) == Len(s) >= Len(p) /\ SubSeq(s, 1, Len(p)) = p

RECURSIVE DecimalValue(_)
DecimalValue(s) ==
  IF s = <<>>
    THEN 0
    ELSE 10 * DecimalValue(SubSeq(s, 1, Len(s) - 1)) + DigitVal(s[Len(s)])

\* a float: a finite value (an integer, in the model) or one of nan, inf, -inf
Finite(n) == [cls |-> "fin", val |-> n]

NaN == [cls |-> "nan", val |-> 0]

PosInf == [cls |-> "inf", val |-> 0]

NegInf == [cls |-> "-inf", val |-> 0]

\* c.lower() on the letters of nan, inf and infinity
Lower(c) ==
  CASE c = "N" -> "n" [] c = "A" -> "a" [] c = "I" -> "i" [] c = "F" -> "f"
    [] c = "T" -> "t" [] c = "Y" -> "y" [] OTHER -> c

\* the spellings float() reads as a non-finite value, without their sign
NonFiniteWords ==
  {<<"n", "a", "n">>, <<"i", "n", "f">>,
   <<"i", "n", "f", "i", "n", "i", "t", "y">>}

\* float(tok) on the tokens of the model's alphabet: a non-empty run of
\* decimal digits converts to its value; nan, inf and infinity, in any case
\* and with an optional sign, convert to the non-finite values; everything
\* else raises ValueError
ToFloat(tok) ==
  LET signed == tok # <<>> /\ tok[1] \in {"+", "-"}
      body == IF signed THEN Tail(tok) ELSE tok
      word == [i \in 1..Len(body) |-> Lower(body[i])]
  IN IF tok # <<>> /\ \A i \in 1..Len(tok) : tok[i] \in Digits
       THEN [ok |-> TRUE, val |-> Finite(DecimalValue(tok))]
       ELSE IF word \in NonFiniteWords
         THEN [ok |-> TRUE,
               val |-> IF word = <<"n", "a", "n">> THEN NaN
                       ELSE IF signed /\ tok[1] = "-" THEN NegInf
                       ELSE PosInf]
         ELSE [ok |-> FALSE, val |-> Finite(0)]

\* a + b on floats
FloatAdd(a, b) ==
  IF a.cls = "fin" /\ b.cls = "fin" THEN Finite(a.val + b.val)
  ELSE IF a.cls = "nan" \/ b.cls = "nan" THEN NaN
  ELSE IF a.cls = "fin" THEN b
  ELSE IF b.cls = "fin" \/ a.cls = b.cls THEN a
  ELSE NaN

\* the empty dict
EmptyMap == [k \in {} |-> 0]

\* m[k] = v on a dict
Put(m, k, v) == (k :> v) @@ m

\* ---------------------------------------------------------------------------
\* parse_prometheus_metrics, one operator per plugin
\* ---------------------------------------------------------------------------

\* outcome of one line: skip (continue / swallowed exception) or an entry
NoEntry == [entry |-> FALSE, key |-> <<>>, value |-> <<>>]

\* earnings and reth: the key is the text before the first '{'
ParseLineNameOnly(raw) ==
  LET line == Strip(raw)
  IN IF line = <<>> \/ line[1] = "#"
       THEN NoEntry
       ELSE IF Contains(line, "{")
         THEN LET metric_name == Split(line, "{")[1]
                  pieces == Split(line, "}")
                  value_part == Strip(pieces[Len(pieces)])
                  toks == SplitWS(value_part)
              IN IF toks = <<>>
                   THEN NoEntry    \* IndexError, swallowed by the bare except
                   ELSE [entry |-> TRUE, key |-> metric_name, value |-> toks[1]]
         ELSE LET parts == SplitWS(line)
              IN IF Len(parts) >= 2
                   THEN [entry |-> TRUE, key |-> parts[1], value |-> parts[2]]
                   ELSE NoEntry

\* lighthouse: the key carries the label block when it is not empty
ParseLineWithLabels(raw) ==
  LET line == Strip(raw)
  IN IF line = <<>> \/ line[1] = "#"
       THEN NoEntry
       ELSE IF Contains(line, "{")
         THEN LET metric_name == Split(line, "{")[1]
                  labels_part == Split(Split(line, "{")[2], "}")[1]
                  pieces == Split(line, "}")
                  value_part == Strip(pieces[Len(pieces)])
                  toks == SplitWS(value_part)
                  key == IF labels_part # <<>>
                           THEN metric_name \o <<"{">> \o labels_part \o <<"}">>
                           ELSE metric_name
              IN IF toks = <<>>
                   THEN NoEntry
                   ELSE [entry |-> TRUE, key |-> key, value |-> toks[1]]
         ELSE LET parts == SplitWS(line)
              IN IF Len(parts) >= 2
                   THEN [entry |-> TRUE, key |-> parts[1], value |-> parts[2]]
                   ELSE NoEntry

\* the store at the end of the loop body: float(value), ValueError dropped
StoreLineDefault(metrics, r) ==
  IF r.entry
    THEN Put(metrics, r.key,
             IF ToFloat(r.value).ok THEN ToFloat(r.value).val ELSE Finite(0))
    ELSE metrics

StoreLine(metrics, r) ==
  IF r.entry /\ ToFloat(r.value).ok
    THEN Put(metrics, r.key, ToFloat(r.value).val)
    ELSE metrics

RECURSIVE FoldNameOnly(_, _, _)
FoldNameOnly(lines, i, metrics) ==
  IF i > Len(lines)
    THEN metrics
    ELSE FoldNameOnly(lines, i + 1,
                      StoreLine(metrics, ParseLineNameOnly(lines[i])))

RECURSIVE FoldWithLabels(_, _, _)
FoldWithLabels(lines, i, metrics) ==
  IF i > Len(lines)
    THEN metrics
    ELSE FoldWithLabels(lines, i + 1,
                        StoreLine(metrics, ParseLineWithLabels(lines[i])))

earnings_parse_prometheus_metrics(text) ==
  FoldNameOnly(Split(text, "\n"), 1, EmptyMap)

reth_parse_prometheus_metrics(text) ==
  FoldNameOnly(Split(text, "\n"), 1, EmptyMap)

lighthouse_parse_prometheus_metrics(text) ==
  FoldWithLabels(Split(text, "\n"), 1, EmptyMap)

\* ---------------------------------------------------------------------------
\* Summing the validator balances
\* ---------------------------------------------------------------------------

BalancePrefix ==
  <<"v", "a", "l", "i", "d", "a", "t", "o", "r", "_",
    "b", "a", "l", "a", "n", "c", "e", "_", "g", "w", "e", "i">>

RECURSIVE SumOver(_, _)
SumOver(m, keys) ==
  IF keys = {}
    THEN Finite(0)
    ELSE LET k == CHOOSE x \in keys : TRUE
         IN FloatAdd(m[k], SumOver(m, keys \ {k}))

\* for key, value in metrics.items(): if key.startswith(...): total += value
SumBalances(metrics) ==
  SumOver(metrics, {k \in DOMAIN metrics : StartsWith(k, BalancePrefix)})

\* fetch_eth_balance on a response body that was read successfully
fetch_eth_balance(text) == SumBalances(earnings_parse_prometheus_metrics(text))

\* total_balance of lighthouse get_data for a validator text
lighthouse_total_balance(text) ==
  SumBalances(lighthouse_parse_prometheus_metrics(text))

\* ---------------------------------------------------------------------------
\* State
\* ---------------------------------------------------------------------------

VARIABLES
  expo,       \* the exposition lines a backend serves, as (name, labels, value)
  text,       \* the response body: the lines of expo, each ended by a newline
  decoded,    \* per plugin: whether it decoded text, its metrics dict, its total
  clock,      \* time.time(), in seconds
  disk,       \* content of STATE_FILE
  pc,         \* position of the earnings plugin process in main / get_data
  state,      \* the local variable state of get_data
  loaded,     \* the object load_state returned to the current get_data
  data,       \* the local variable data of get_data
  calcs,      \* the calculate_earnings calls of the current cycle, by prefix
  prev,       \* what the previous completed cycle stored, and how its save went
  restarted,  \* the process restarted since the previous cycle returned
  inflight,   \* number of get_data invocations that loaded and did not return
  cycle,      \* number of get_data invocations started so far
  fatalAt,    \* where the exception of a fatal exit was raised
  sse,        \* one query_dozzle_sse call: pc, the stream served, pos (the
              \* bytes delivered), buffer, result, and for the properties:
              \* framed and json_str (the payload parsed), cut (the call
              \* ended on a failure of the transport or before the stream),
              \* split (more than one chunk was read)
  tool,       \* one call_tool invocation: position, backend calls, response
  conn,       \* the last connector call: which one, its outcome, its return
  plug        \* one plugin process seen from its standard output: which
              \* plugin, position in main, the chart ids declared, the lines
              \* of the last cycle, the cycles done, how it exited

decodeVars == <<expo, text, decoded>>

trackerVars ==
  <<clock, disk, pc, state, loaded, data, calcs, prev, restarted, inflight,
    cycle, fatalAt>>

serverVars == <<sse, tool, conn>>

pluginVars == <<plug>>

vars == <<expo, text, decoded, clock, disk, pc, state, loaded, data, calcs,
          prev, restarted, inflight, cycle, fatalAt, sse, tool, conn, plug>>

\* ---------------------------------------------------------------------------
\* Exposition texts
\* ---------------------------------------------------------------------------

Foo == <<"f", "o", "o">>

LabelV1 == <<"{", "v", "=", "\"", "1", "\"", "}">>

LabelV2 == <<"{", "v", "=", "\"", "2", "\"", "}">>

LabelEmpty == <<"{", "}">>

V1000 == <<"1", "0", "0", "0">>

V2000 == <<"2", "0", "0", "0">>

V3000 == <<"3", "0", "0", "0">>

V3600 == <<"3", "6", "0", "0">>

Bar == <<"b", "a", "r">>

MetricNames == {BalancePrefix, Foo}

LabelBlocks == {<<>>, LabelV1, LabelV2, LabelEmpty}

ValueTokens == {V1000, V2000, Bar}

\* the lines name value and name{labels} value
LineSpecs == [name : MetricNames, labels : LabelBlocks, value : ValueTokens]

RenderLine(l) == l.name \o l.labels \o <<" ">> \o l.value \o <<"\n">>

RECURSIVE RenderText(_)
RenderText(ls) ==
  IF ls = <<>> THEN <<>> ELSE RenderLine(Head(ls)) \o RenderText(Tail(ls))

Expositions == UNION {[1..n -> LineSpecs] : n \in 1..MaxLines}

Plugins == {"earnings", "lighthouse", "reth"}

NotDecoded == [ran |-> FALSE, metrics |-> EmptyMap, total |-> Finite(0)]

\* ---------------------------------------------------------------------------
\* The decoders applied to a scraped text
\* ---------------------------------------------------------------------------

\* earnings fetch_eth_balance: decode, then sum the validator balances
EarningsDecode ==
  /\ ~decoded["earnings"].ran
  /\ decoded' = [decoded EXCEPT !["earnings"] =
                   [ran |-> TRUE,
                    metrics |-> earnings_parse_prometheus_metrics(text),
                    total |-> fetch_eth_balance(text)]]
  /\ UNCHANGED <<expo, text>>
  /\ UNCHANGED trackerVars
  /\ UNCHANGED serverVars
  /\ UNCHANGED pluginVars

\* lighthouse get_data: validator_metrics and data['total_balance']
LighthouseDecode ==
  /\ ~decoded["lighthouse"].ran
  /\ decoded' = [decoded EXCEPT !["lighthouse"] =
                   [ran |-> TRUE,
                    metrics |-> lighthouse_parse_prometheus_metrics(text),
                    total |-> lighthouse_total_balance(text)]]
  /\ UNCHANGED <<expo, text>>
  /\ UNCHANGED trackerVars
  /\ UNCHANGED serverVars
  /\ UNCHANGED pluginVars

\* reth get_data: metrics
RethDecode ==
  /\ ~decoded["reth"].ran
  /\ decoded' = [decoded EXCEPT !["reth"] =
                   [ran |-> TRUE,
                    metrics |-> reth_parse_prometheus_metrics(text),
                    total |-> Finite(0)]]
  /\ UNCHANGED <<expo, text>>
  /\ UNCHANGED trackerVars
  /\ UNCHANGED serverVars
  /\ UNCHANGED pluginVars

\* ---------------------------------------------------------------------------
\* Float arithmetic of calculate_earnings, as exact fractions <<num, den>>
\* ---------------------------------------------------------------------------

Abs(n) == IF n < 0 THEN -n ELSE n

RECURSIVE GCD(_, _)
GCD(a, b) == IF b = 0 THEN a ELSE GCD(b, a % b)

\* the fraction n/d in lowest terms with a positive denominator (d # 0)
Frac(n, d) ==
  LET g == GCD(Abs(n), Abs(d))
      sgn == IF d < 0 THEN -1 ELSE 1
  IN <<sgn * (n \div g), sgn * (d \div g)>>

FracOfInt(n) == <<n, 1>>

\* a / b; b = 0 raises ZeroDivisionError
FracDiv(a, b) ==
  IF b[1] = 0
    THEN [raised |-> TRUE, val |-> FracOfInt(0)]
    ELSE [raised |-> FALSE, val |-> Frac(a[1] * b[2], a[2] * b[1])]

FracMul(a, b) == Frac(a[1] * b[1], a[2] * b[2])

\* int(x): truncation towards zero
FracToInt(a) == IF a[1] >= 0 THEN a[1] \div a[2] ELSE -((-a[1]) \div a[2])

SecondsPerHour == 3600

HoursPerDay == 24

\* ---------------------------------------------------------------------------
\* The state table and the state file
\* ---------------------------------------------------------------------------

Prefixes == {"eth", "tezos"}

\* the dict {} and an unpickled object that is not a dict (a list, a number)
EmptyDict == [kind |-> "dict", tbl |-> EmptyMap]

NotADict == [kind |-> "notmap", tbl |-> EmptyMap]

FileAbsent == [kind |-> "absent", obj |-> EmptyDict]

\* a file pickle.load cannot read: truncated, partial or foreign bytes
FileCorrupt == [kind |-> "corrupt", obj |-> EmptyDict]

FilePickle(obj) == [kind |-> "pickle", obj |-> obj]

\* load_state that never reads the file
load_state_fresh(file) == EmptyDict

\* load_state: the unpickled object when the file exists and loads, else {}
load_state(file) == IF file.kind = "pickle" THEN file.obj ELSE EmptyDict

SaveOutcomes == {"ok", "open_fails", "dump_fails"}

\* save_state without its try/except: a failed write raises
save_state_uncaught(st, file, outcome) ==
  [raised |-> outcome # "ok",
   file |-> CASE outcome = "ok" -> FilePickle(st)
              [] outcome = "open_fails" -> file
              [] outcome = "dump_fails" -> FileCorrupt]

\* save_state: open(STATE_FILE, 'wb') truncates the file, pickle.dump writes
\* it; OSError and pickling errors are caught and logged
save_state(st, file, outcome) ==
  [raised |-> FALSE,
   file |-> CASE outcome = "ok" -> FilePickle(st)
              [] outcome = "open_fails" -> file
              [] outcome = "dump_fails" -> FileCorrupt]

Zeros == <<FracOfInt(0), 0, FracOfInt(0)>>

\* the guard written as "if time_diff >= 0"
ElapsedNotNegative(time_diff) == time_diff >= 0

\* the guard "if time_diff > 0" of the division
ElapsedPositive(time_diff) == time_diff > 0

\* the rate taken per second: the division by 3600 left out
HourlyRatePerSecond(balance_diff, time_diff) ==
  IF ElapsedPositive(time_diff)
    THEN FracDiv(FracOfInt(balance_diff), FracOfInt(time_diff))
    ELSE [raised |-> FALSE, val |-> FracOfInt(0)]

\* hours = time_diff / 3600; hourly_rate = balance_diff / hours, else 0
HourlyRate(balance_diff, time_diff) ==
  IF ElapsedPositive(time_diff)
    THEN FracDiv(FracOfInt(balance_diff),
                 FracDiv(FracOfInt(time_diff), FracOfInt(SecondsPerHour)).val)
    ELSE [raised |-> FALSE, val |-> FracOfInt(0)]

\* daily_estimate = hourly_rate * 24
DailyEstimate(hourly_rate) == FracMul(hourly_rate, FracOfInt(HoursPerDay))

\* a baseline that does not take the time of the observation
BaselineStale(current_balance, now) ==
  [last_balance |-> current_balance, last_time |-> 0,
   hourly_rate |-> FracOfInt(0), balance_diff |-> 0]

\* the entry stored by the first observation of a prefix
Baseline(current_balance, now) ==
  [last_balance |-> current_balance, last_time |-> now,
   hourly_rate |-> FracOfInt(0), balance_diff |-> 0]

\* calculate_earnings(current_balance, state, key_prefix) with now = time.time()
calculate_earnings(current_balance, st, key_prefix, now) ==
  IF st.kind # "dict"
    THEN \* TypeError from "key_prefix not in state" or from the item store
         [raised |-> TRUE, state |-> st, ret |-> Zeros, divided |-> FALSE]
    ELSE IF key_prefix \notin DOMAIN st.tbl
      THEN [raised |-> FALSE,
            state |-> [st EXCEPT !.tbl =
                         Put(st.tbl, key_prefix, Baseline(current_balance, now))],
            ret |-> Zeros,
            divided |-> FALSE]
      ELSE LET prev_data == st.tbl[key_prefix]
               time_diff == now - prev_data.last_time
               balance_diff == current_balance - prev_data.last_balance
               hourly_rate == HourlyRate(balance_diff, time_diff)
               daily_estimate == DailyEstimate(hourly_rate.val)
           IN [raised |-> hourly_rate.raised,
               state |-> [st EXCEPT !.tbl =
                            Put(st.tbl, key_prefix,
                                [last_balance |-> current_balance,
                                 last_time |-> now,
                                 hourly_rate |-> hourly_rate.val,
                                 balance_diff |-> balance_diff])],
               ret |-> <<hourly_rate.val, balance_diff, daily_estimate>>,
               divided |-> ElapsedPositive(time_diff)]

\* ---------------------------------------------------------------------------
\* The earnings plugin process: main and get_data
\* ---------------------------------------------------------------------------

\* seconds between two readings of the clock, and the number of steps forward
TickSeconds == 3600

MaxTicks == 1

\* number of get_data invocations explored
MaxCycles == 2

TickSteps == {TickSeconds}

\* response bodies of the validator metrics endpoint
ScrapeExpos ==
  { <<[name |-> BalancePrefix, labels |-> <<>>, value |-> V3000]>>,
    <<[name |-> BalancePrefix, labels |-> <<>>, value |-> V3600]>> }

None == [none |-> TRUE, val |-> 0]

Some(v) == [none |-> FALSE, val |-> v]

\* what fetch_eth_balance returns: None on a failed request, else the sum
EthFetches ==
  {None} \cup {Some(fetch_eth_balance(RenderText(e)).val) : e \in ScrapeExpos}

\* what fetch_tezos_balance returns: None, or the delegate's balance
TezosBalances == {100}

TezosFetches == {None} \cup {Some(b) : b \in TezosBalances}

DataKeys(prefix) ==
  IF prefix = "eth"
    THEN <<"eth_hourly_rate", "eth_balance_diff", "eth_daily_eth">>
    ELSE <<"tezos_hourly_rate", "tezos_balance_diff", "tezos_daily_xtz">>

\* data[...] = int(hourly), int(diff), int(daily)
PutResult(d, prefix, ret) ==
  Put(Put(Put(d, DataKeys(prefix)[1], FracToInt(ret[1])),
          DataKeys(prefix)[2], ret[2]),
      DataKeys(prefix)[3], FracToInt(ret[3]))

\* data[...] = 0 for a balance that could not be fetched
PutZeros(d, prefix) ==
  Put(Put(Put(d, DataKeys(prefix)[1], 0), DataKeys(prefix)[2], 0),
      DataKeys(prefix)[3], 0)

NoPrev == [valid |-> FALSE, tbl |-> EmptyMap, obs |-> {}, saveOk |-> FALSE]

\* a loop that starts get_data while an invocation is still running
MainLoopAlways == TRUE

\* main's loop calls get_data only after the previous iteration has finished
MainLoopReady == pc = "sleep"

\* get_data, first statement: state = load_state(); data = {}
LoadState ==
  /\ MainLoopReady
  /\ cycle < MaxCycles
  /\ cycle' = cycle + 1
  /\ state' = load_state(disk)
  /\ loaded' = load_state(disk)
  /\ data' = EmptyMap
  /\ calcs' = EmptyMap
  /\ pc' = "eth"
  /\ inflight' = inflight + 1
  /\ UNCHANGED <<clock, disk, prev, restarted, fatalAt>>
  /\ UNCHANGED decodeVars
  /\ UNCHANGED serverVars
  /\ UNCHANGED pluginVars

\* a block that stamps the stored entry with the time of a failed fetch
ObserveStamped(prefix, fetched, nextpc) ==
  IF fetched.none
    THEN /\ data' = PutZeros(data, prefix)
         /\ pc' = nextpc
         /\ state' = IF state.kind = "dict" /\ prefix \in DOMAIN state.tbl
                        THEN [state EXCEPT !.tbl[prefix].last_time = clock]
                        ELSE state
         /\ UNCHANGED <<calcs, inflight, fatalAt>>
    ELSE LET c == calculate_earnings(fetched.val, state, prefix, clock)
         IN IF c.raised
              THEN /\ pc' = "fatal"
                   /\ fatalAt' = "observe"
                   /\ inflight' = 0
                   /\ UNCHANGED <<state, data, calcs>>
              ELSE /\ state' = c.state
                   /\ data' = PutResult(data, prefix, c.ret)
                   /\ calcs' = Put(calcs, prefix,
                                   [cur |-> fetched.val, now |-> clock,
                                    before |-> state.tbl,
                                    ret |-> c.ret, divided |-> c.divided,
                                    stored |-> c.state.tbl[prefix]])
                   /\ pc' = nextpc
                   /\ UNCHANGED <<inflight, fatalAt>>

\* one "fetch balance, then calculate_earnings or zeros" block of get_data
Observe(prefix, fetched, nextpc) ==
  IF fetched.none
    THEN /\ data' = PutZeros(data, prefix)
         /\ pc' = nextpc
         /\ UNCHANGED <<state, calcs, inflight, fatalAt>>
    ELSE LET c == calculate_earnings(fetched.val, state, prefix, clock)
         IN IF c.raised
              THEN \* the exception leaves get_data and main: sys.exit(1)
                   /\ pc' = "fatal"
                   /\ fatalAt' = "observe"
                   /\ inflight' = 0
                   /\ UNCHANGED <<state, data, calcs>>
              ELSE /\ state' = c.state
                   /\ data' = PutResult(data, prefix, c.ret)
                   /\ calcs' = Put(calcs, prefix,
                                   [cur |-> fetched.val, now |-> clock,
                                    before |-> state.tbl,
                                    ret |-> c.ret, divided |-> c.divided,
                                    stored |-> c.state.tbl[prefix]])
                   /\ pc' = nextpc
                   /\ UNCHANGED <<inflight, fatalAt>>

ObserveEth ==
  /\ pc = "eth"
  /\ \E f \in EthFetches : Observe("eth", f, "tezos")
  /\ UNCHANGED <<clock, disk, loaded, prev, restarted, cycle>>
  /\ UNCHANGED decodeVars
  /\ UNCHANGED serverVars
  /\ UNCHANGED pluginVars

ObserveTezos ==
  /\ pc = "tezos"
  /\ \E f \in TezosFetches : Observe("tezos", f, "save")
  /\ UNCHANGED <<clock, disk, loaded, prev, restarted, cycle>>
  /\ UNCHANGED decodeVars
  /\ UNCHANGED serverVars
  /\ UNCHANGED pluginVars

\* get_data: save_state(state)
SaveState ==
  /\ pc = "save"
  /\ \E outcome \in SaveOutcomes :
       LET r == save_state(state, disk, outcome)
       IN /\ disk' = r.file
          /\ IF r.raised
               THEN /\ pc' = "fatal"
                    /\ fatalAt' = "save"
                    /\ inflight' = 0
               ELSE /\ pc' = "ret"
                    /\ UNCHANGED <<fatalAt, inflight>>
          /\ prev' = [valid |-> TRUE, tbl |-> state.tbl, obs |-> DOMAIN calcs,
                      saveOk |-> outcome = "ok"]
  /\ restarted' = FALSE
  /\ UNCHANGED <<clock, state, loaded, data, calcs, cycle>>
  /\ UNCHANGED decodeVars
  /\ UNCHANGED serverVars
  /\ UNCHANGED pluginVars

\* get_data: return data; main prints the charts and sleeps
Return ==
  /\ pc = "ret"
  /\ pc' = "sleep"
  /\ state' = EmptyDict
  /\ loaded' = EmptyDict
  /\ data' = EmptyMap
  /\ calcs' = EmptyMap
  /\ inflight' = inflight - 1
  /\ UNCHANGED <<clock, disk, prev, restarted, cycle, fatalAt>>
  /\ UNCHANGED decodeVars
  /\ UNCHANGED serverVars
  /\ UNCHANGED pluginVars

\* the plugin process is stopped and started again by its host
Restart ==
  /\ pc' = "sleep"
  /\ state' = EmptyDict
  /\ loaded' = EmptyDict
  /\ data' = EmptyMap
  /\ calcs' = EmptyMap
  /\ inflight' = 0
  /\ fatalAt' = "none"
  /\ restarted' = TRUE
  /\ prev' = IF pc \in {"sleep", "ret"} THEN prev ELSE NoPrev
  /\ UNCHANGED <<clock, disk, cycle>>
  /\ UNCHANGED decodeVars
  /\ UNCHANGED serverVars
  /\ UNCHANGED pluginVars

\* time passes
Tick ==
  /\ \E d \in TickSteps :
       /\ clock + d <= MaxTicks * TickSeconds
       /\ clock' = clock + d
  /\ UNCHANGED <<disk, pc, state, loaded, data, calcs, prev, restarted,
                 inflight, cycle, fatalAt>>
  /\ UNCHANGED decodeVars
  /\ UNCHANGED serverVars
  /\ UNCHANGED pluginVars

\* the wall clock is set back
ClockBack ==
  /\ clock >= TickSeconds
  /\ clock' = clock - TickSeconds
  /\ UNCHANGED <<disk, pc, state, loaded, data, calcs, prev, restarted,
                 inflight, cycle, fatalAt>>
  /\ UNCHANGED decodeVars
  /\ UNCHANGED serverVars
  /\ UNCHANGED pluginVars

\* ---------------------------------------------------------------------------
\* Specifications
\* ---------------------------------------------------------------------------

TrackerIdle ==
  /\ clock = 0
  /\ disk = FileAbsent
  /\ pc = "sleep"
  /\ state = EmptyDict
  /\ loaded = EmptyDict
  /\ data = EmptyMap
  /\ calcs = EmptyMap
  /\ prev = NoPrev
  /\ restarted = FALSE
  /\ inflight = 0
  /\ cycle = 0
  /\ fatalAt = "none"

DecodeIdle ==
  /\ expo = <<>>
  /\ text = <<>>
  /\ decoded = [p \in Plugins |-> NotDecoded]

\* no request has reached the MCP server
SseIdle == [pc |-> "idle"]

ToolIdle == [pc |-> "idle"]

ConnIdle == [pc |-> "idle"]

ServerIdle ==
  /\ sse = SseIdle
  /\ tool = ToolIdle
  /\ conn = ConnIdle

\* no plugin has been started
PlugIdle == plug = [pc |-> "idle"]

\* the plugin starts with whatever STATE_FILE holds
Init ==
  /\ DecodeIdle
  /\ ServerIdle
  /\ PlugIdle
  /\ clock = 0
  /\ disk \in {FileAbsent, FileCorrupt, FilePickle(NotADict)}
  /\ pc = "sleep"
  /\ state = EmptyDict
  /\ loaded = EmptyDict
  /\ data = EmptyMap
  /\ calcs = EmptyMap
  /\ prev = NoPrev
  /\ restarted = FALSE
  /\ inflight = 0
  /\ cycle = 0
  /\ fatalAt = "none"

Next ==
  \/ LoadState
  \/ ObserveEth
  \/ ObserveTezos
  \/ SaveState
  \/ Return
  \/ Restart
  \/ Tick
  \/ ClockBack

Spec == Init /\ [][Next]_vars

\* a backend serves a text and each plugin decodes it
InitDecode ==
  /\ TrackerIdle
  /\ ServerIdle
  /\ PlugIdle
  /\ expo \in Expositions
  /\ text = RenderText(expo)
  /\ decoded = [p \in Plugins |-> NotDecoded]

NextDecode ==
  \/ EarningsDecode
  \/ LighthouseDecode
  \/ RethDecode

SpecDecode == InitDecode /\ [][NextDecode]_vars

\* ---------------------------------------------------------------------------
\* Properties of the exposition decoders (SpecDecode)
\* ---------------------------------------------------------------------------

\* a line name{labels} value with a label block that is not empty
HasLabels(l) == Len(l.labels) > 2

IsNumeric(l) == ToFloat(l.value).ok

RECURSIVE SumValues(_)
SumValues(ls) ==
  IF ls = <<>>
    THEN 0
    ELSE ToFloat(Head(ls).value).val.val + SumValues(Tail(ls))

\* validator_balance_gwei lines with numeric values that differ in their labels
BalanceLinesDifferingInLabels(ls) ==
  /\ Len(ls) >= 2
  /\ \A i \in 1..Len(ls) :
       ls[i].name = BalancePrefix /\ HasLabels(ls[i]) /\ IsNumeric(ls[i])
  /\ \A i, j \in 1..Len(ls) : i # j => ls[i].labels # ls[j].labels

\* C1: every line name{labels} value with a numeric value is stored, by each
\* of the three decoders, under the key name{labels}, so that lines of one
\* metric with different label blocks are distinct entries of the mapping.
C1_LabelBlockInKey ==
  \A p \in Plugins :
    decoded[p].ran =>
      \A i \in 1..Len(expo) :
        (HasLabels(expo[i]) /\ IsNumeric(expo[i])) =>
          (expo[i].name \o expo[i].labels) \in DOMAIN decoded[p].metrics

\* C2: for a text of validator_balance_gwei lines that differ only in their
\* labels, the total balance of earnings fetch_eth_balance and of lighthouse
\* get_data is the sum of the values of all the lines.
C2_TotalIsSumOfLines ==
  \A p \in {"earnings", "lighthouse"} :
    (decoded[p].ran /\ BalanceLinesDifferingInLabels(expo)) =>
      decoded[p].total = Finite(SumValues(expo))

\* ---------------------------------------------------------------------------
\* Properties of the rate tracker (Spec)
\* ---------------------------------------------------------------------------

\* elapsed time and balance change of a recorded call on an existing prefix
CallElapsed(p) == calcs[p].now - calcs[p].before[p].last_time

CallDelta(p) == calcs[p].cur - calcs[p].before[p].last_balance

\* C3: the first observation of a prefix (prefix absent from the state table)
\* returns (0, 0, 0) and stores the baseline entry: last value = the observed
\* value, timestamp = the current time, rate 0 and delta 0.
C3_FirstObservationBaseline ==
  \A p \in DOMAIN calcs :
    p \notin DOMAIN calcs[p].before =>
      /\ calcs[p].ret = <<FracOfInt(0), 0, FracOfInt(0)>>
      /\ calcs[p].stored =
           [last_balance |-> calcs[p].cur, last_time |-> calcs[p].now,
            hourly_rate |-> FracOfInt(0), balance_diff |-> 0]
      /\ (pc = "tezos" => state.tbl[p] = calcs[p].stored)

C3_Witness ==
  /\ pc = "tezos"
  /\ "eth" \in DOMAIN calcs
  /\ "eth" \notin DOMAIN calcs["eth"].before
  /\ calcs["eth"].cur = 3000
  /\ calcs["eth"].now > 0

\* C4: for a known prefix and elapsed time dt > 0 the call returns
\* delta = current - last value, hourly_rate = delta / (dt / 3600) and
\* daily_estimate = hourly_rate * 24 (3000 then 3600 one hour apart: 600 and
\* 14400), and the stored entry holds the new value, time, rate and delta.
C4_RateOfKnownPrefix ==
  \A p \in DOMAIN calcs :
    (p \in DOMAIN calcs[p].before /\ CallElapsed(p) > 0) =>
      /\ calcs[p].ret[2] = CallDelta(p)
      /\ calcs[p].ret[1] = Frac(CallDelta(p) * 3600, CallElapsed(p))
      /\ calcs[p].ret[3] = Frac(CallDelta(p) * 3600 * 24, CallElapsed(p))
      /\ calcs[p].stored =
           [last_balance |-> calcs[p].cur, last_time |-> calcs[p].now,
            hourly_rate |-> calcs[p].ret[1], balance_diff |-> CallDelta(p)]
      /\ ((calcs[p].before[p].last_balance = 3000 /\ calcs[p].cur = 3600
             /\ CallElapsed(p) = 3600) =>
            calcs[p].ret = <<(<<600, 1>>), 600, (<<14400, 1>>)>>)

C4_Witness ==
  /\ "eth" \in DOMAIN calcs
  /\ "eth" \in DOMAIN calcs["eth"].before
  /\ calcs["eth"].before["eth"].last_balance = 3000
  /\ calcs["eth"].cur = 3600
  /\ CallElapsed("eth") = 3600
  /\ data["eth_hourly_rate"] = 600
  /\ data["eth_daily_eth"] = 14400

\* C5: for a known prefix and elapsed time <= 0 (same instant, clock set
\* back) no division is performed and no exception ends the process, the call
\* returns hourly_rate 0 and daily_estimate 0 with delta = current - last
\* value, and the stored value and timestamp are the new ones.
C5_NoDivisionWithoutElapsedTime ==
  /\ \A p \in DOMAIN calcs :
       (p \in DOMAIN calcs[p].before /\ CallElapsed(p) <= 0) =>
         /\ ~calcs[p].divided
         /\ calcs[p].ret = <<FracOfInt(0), CallDelta(p), FracOfInt(0)>>
         /\ calcs[p].stored.last_balance = calcs[p].cur
         /\ calcs[p].stored.last_time = calcs[p].now
  /\ (pc = "fatal" => state.kind # "dict")

C5_Witness ==
  /\ "eth" \in DOMAIN calcs
  /\ "eth" \in DOMAIN calcs["eth"].before
  /\ CallElapsed("eth") < 0
  /\ CallDelta("eth") = 600
  /\ "tezos" \in DOMAIN calcs
  /\ "tezos" \in DOMAIN calcs["tezos"].before
  /\ CallElapsed("tezos") = 0
  /\ calcs["tezos"].cur = 100

\* the cycle in progress has not yet run its own save_state
BeforeOwnSave == pc \in {"tezos", "save"}

\* C6: after a failed save_state, the next cycle of the same process computes
\* against the value and timestamp of the observation whose persist failed.
C6_InMemoryStateAuthoritative ==
  (BeforeOwnSave /\ prev.valid /\ ~prev.saveOk /\ ~restarted) =>
    \A p \in DOMAIN calcs \cap prev.obs :
      /\ p \in DOMAIN calcs[p].before
      /\ calcs[p].before[p] = prev.tbl[p]

\* what get_data has to return for the calls of the cycle
DataOfCycle(p) ==
  IF p \in DOMAIN calcs
    THEN <<FracToInt(calcs[p].ret[1]), calcs[p].ret[2], FracToInt(calcs[p].ret[3])>>
    ELSE <<0, 0, 0>>

\* C7: whether or not save_state succeeds, get_data returns the hourly rate,
\* delta and daily estimate computed in the cycle, and no exception of the
\* write ends the process.
C7_SaveFailureKeepsResult ==
  /\ fatalAt # "save"
  /\ pc = "ret" =>
       \A p \in Prefixes :
         <<data[DataKeys(p)[1]], data[DataKeys(p)[2]], data[DataKeys(p)[3]]>>
           = DataOfCycle(p)

C7_Witness ==
  /\ pc = "ret"
  /\ ~prev.saveOk
  /\ "eth" \in DOMAIN calcs
  /\ calcs["eth"].ret[1] = <<600, 1>>
  /\ data["eth_hourly_rate"] = 600

\* the file is absent, unreadable, or holds something that is not a table
FileUnusable == disk.kind # "pickle" \/ disk.obj.kind # "dict"

\* C8: with an absent, unreadable or corrupt file (also one that loads but is
\* not a mapping) the tracker starts from an empty table without raising, and
\* every observation is a fresh baseline returning (0, 0, 0).
C8_UnusableFileIsFreshBaseline ==
  (pc \in {"eth", "tezos", "save", "fatal"} /\ FileUnusable) =>
    /\ pc # "fatal"
    /\ loaded = EmptyDict
    /\ \A p \in DOMAIN calcs :
         calcs[p].ret = <<FracOfInt(0), 0, FracOfInt(0)>>

\* C9: when the previous cycle persisted its table, the first observation of
\* a prefix of that table after a restart is computed against the entry that
\* cycle stored, exactly as it is without a restart: the same rate, delta and
\* estimate, never a zero baseline.
C9_RestartKeepsBaseline ==
  (BeforeOwnSave /\ prev.valid /\ prev.saveOk) =>
    \A p \in DOMAIN calcs \cap DOMAIN prev.tbl :
      /\ p \in DOMAIN calcs[p].before
      /\ calcs[p].before[p] = prev.tbl[p]
      /\ calcs[p].ret[2] = calcs[p].cur - prev.tbl[p].last_balance
      /\ calcs[p].ret[1] =
           IF calcs[p].now - prev.tbl[p].last_time > 0
             THEN Frac((calcs[p].cur - prev.tbl[p].last_balance) * 3600,
                       calcs[p].now - prev.tbl[p].last_time)
             ELSE FracOfInt(0)

C9_Witness ==
  /\ BeforeOwnSave
  /\ restarted
  /\ prev.valid
  /\ prev.saveOk
  /\ "eth" \in DOMAIN calcs
  /\ "eth" \in DOMAIN prev.tbl
  /\ calcs["eth"].ret[1] = <<600, 1>>

ChunkBytes == 4096

\* if len(buffer) > 500000
MaxBufferBytes == 500000

PadChunk == "<one chunk of bytes>"

PadRest == "<rest of bytes>"

InvalidByte == "<0xff>"

ByteWeight(b) ==
  IF b = PadChunk
    THEN ChunkBytes
    ELSE IF b = PadRest THEN MaxBufferBytes % ChunkBytes ELSE 1

\* number of items of b that are c
CountOf(b, c) == Cardinality({i \in 1..Len(b) : b[i] = c})

\* len(buffer): every item counts one byte, a run-length item its weight
ByteLen(b) ==
  Len(b) + CountOf(b, PadChunk) * (ByteWeight(PadChunk) - 1)
         + CountOf(b, PadRest) * (ByteWeight(PadRest) - 1)

\* buffer.decode('utf-8', errors='ignore')
DecodeIgnore(b) == SelectSeq(b, LAMBDA c : c # InvalidByte)

\* text.find(pat, from), positions counted from 1, 0 when there is none
Find(txt, pat, from) ==
  LET hits == {i \in from..(Len(txt) - Len(pat) + 1) :
                 SubSeq(txt, i, i + Len(pat) - 1) = pat}
  IN IF hits = {} THEN 0 ELSE CHOOSE i \in hits : \A j \in hits : i <= j

\* pat in text
HasSub(txt, pat) == Find(txt, pat, 1) # 0

EventMarker ==
  <<"e", "v", "e", "n", "t", ":", " ", "c", "o", "n", "t", "a", "i", "n",
    "e", "r", "s", "-", "c", "h", "a", "n", "g", "e", "d">>

DataMarker == <<"d", "a", "t", "a", ":", " ", "[">>

Terminator == <<"\n", "\n">>

\* str(n) of a natural number
RECURSIVE IntToStr(_)
IntToStr(n) ==
  LET d == CHOOSE c \in Digits : DigitVal(c) = n % 10
  IN IF n < 10 THEN <<d>> ELSE IntToStr(n \div 10) \o <<d>>

\* return values: a list, or a dict given as a function on its keys
List(items) == [type |-> "list", items |-> items]

Dict(map) == [type |-> "dict", map |-> map]

ErrorDict(msg) == Dict([error |-> msg])

MsgDozzleNotEnabled ==
  <<"D", "o", "z", "z", "l", "e", " ", "n", "o", "t", " ", "e", "n", "a",
    "b", "l", "e", "d", " ", "i", "n", " ", "c", "o", "n", "f", "i", "g">>

MsgTooLarge == <<"R", "e", "s", "p", "o", "n", "s", "e", " ", "t", "o", "o", " ", "l",
    "a", "r", "g", "e">>

MsgNoEvent ==
  <<"N", "o", " ", "c", "o", "n", "t", "a", "i", "n", "e", "r", "s", "-",
    "c", "h", "a", "n", "g", "e", "d", " ", "e", "v", "e", "n", "t", " ",
    "f", "o", "u", "n", "d", " ", "i", "n", " ", "s", "t", "r", "e", "a",
    "m">>

MsgTimedOut == <<"R", "e", "q", "u", "e", "s", "t", " ", "t", "i", "m", "e", "d", " ",
    "o", "u", "t">>

MsgHttp(status) == <<"H", "T", "T", "P", " ">> \o IntToStr(status)

MsgException(e) == <<"E", "x", "c", "e", "p", "t", "i", "o", "n", ":", " ">> \o e

MsgJsonError(e) == <<"J", "S", "O", "N", " ", "p", "a", "r", "s", "e", " ", "e", "r", "r",
    "o", "r", ":", " ">> \o e

\* str(e) of the exceptions the model raises
ErrConnReset == <<"C", "o", "n", "n", "e", "c", "t", "i", "o", "n", " ", "r", "e", "s",
    "e", "t">>

ErrJsonDecode == <<"E", "x", "p", "e", "c", "t", "i", "n", "g", " ", "v", "a", "l", "u",
    "e">>

ErrNoGet == <<"n", "o", " ", "a", "t", "t", "r", "i", "b", "u", "t", "e", " ", "'",
    "g", "e", "t", "'">>

\* json.loads on the values of the model: an element is {} or {"key":d}
\* with one digit d, or a bare digit d; an array is "[" elements "]", the
\* elements separated by commas; every other text raises JSONDecodeError
JsonElement(e) ==
  LET n == Len(e)
      key == SubSeq(e, 3, n - 4)
  IN IF e = <<"{", "}">>
       THEN [ok |-> TRUE, obj |-> TRUE, fields |-> EmptyMap]
       ELSE IF n >= 7 /\ SubSeq(e, 1, 2) = <<"{", "\"">>
                 /\ SubSeq(e, n - 3, n - 2) = <<"\"", ":">>
                 /\ e[n - 1] \in Digits /\ e[n] = "}"
                 /\ \A i \in 1..Len(key) : key[i] \notin {"\"", "\\"}
         THEN [ok |-> TRUE, obj |-> TRUE,
               fields |-> Put(EmptyMap, key, DigitVal(e[n - 1]))]
         ELSE IF n = 1 /\ e[1] \in Digits
           THEN [ok |-> TRUE, obj |-> FALSE, fields |-> EmptyMap]
           ELSE [ok |-> FALSE, obj |-> FALSE, fields |-> EmptyMap]

\* d.get(key): None when the key is missing
DictGet(d, key) == IF key \in DOMAIN d THEN Some(d[key]) ELSE None

JsonLoads(s) ==
  IF Len(s) < 2 \/ s[1] # "[" \/ s[Len(s)] # "]"
    THEN [ok |-> FALSE, val |-> <<>>]
    ELSE LET inner == Strip(SubSeq(s, 2, Len(s) - 1))
             parts == Split(inner, ",")
             elems == [i \in 1..Len(parts) |-> JsonElement(Strip(parts[i]))]
         IN IF inner = <<>>
              THEN [ok |-> TRUE, val |-> <<>>]
              ELSE IF \A i \in 1..Len(elems) : elems[i].ok
                THEN [ok |-> TRUE, val |-> elems]
                ELSE [ok |-> FALSE, val |-> <<>>]

\* the loop building containers_minimal: container.get on every element;
\* an element that is no object has no get (AttributeError). Of the eight
\* fields read the model keeps id.
ContainersMinimal(full) ==
  IF \A i \in 1..Len(full) : full[i].obj
    THEN [ok |-> TRUE,
          val |-> [i \in 1..Len(full) |->
                     [id |-> DictGet(full[i].fields, <<"i", "d">>)]]]
    ELSE [ok |-> FALSE, val |-> <<>>]

\* one pass of the loop body: keep reading, or return
Continue ==
  [ret |-> FALSE, result |-> [type |-> "none"], framed |-> FALSE,
   json_str |-> <<>>]

ReturnWith(result, framed, json_str) ==
  [ret |-> TRUE, result |-> result, framed |-> framed, json_str |-> json_str]

\* buffer += chunk
SseAppendChunkOnly(buffer, chunk) == chunk

SseAppend(buffer, chunk) == buffer \o chunk

\* if data_end == -1
FrameIncompleteNever(data_end) == FALSE

FrameIncomplete(data_end) == data_end = 0

\* except json.JSONDecodeError as e
OnJsonErrorKeepReading(json_str) == Continue

OnJsonError(json_str) ==
  ReturnWith(Dict([error |-> MsgJsonError(ErrJsonDecode),
               raw_length |-> Len(json_str)]),
         TRUE, json_str)

\* data_start = text.find('data: [') + 6: the position, counted from 1, of
\* the "[" of the first data marker of the text
DataStart(txt) == Find(txt, DataMarker, 1) + 6

\* the body of "async for chunk", after buffer += chunk
SseBody(buffer) ==
  LET txt == DecodeIgnore(buffer)
      data_start == DataStart(txt)
      data_end == Find(txt, Terminator, data_start)
      json_str == Strip(SubSeq(txt, data_start, data_end - 1))
      containers_full == JsonLoads(json_str)
      containers_minimal == ContainersMinimal(containers_full.val)
  IN IF HasSub(txt, EventMarker) /\ HasSub(txt, DataMarker)
       THEN IF FrameIncomplete(data_end)
              THEN Continue
              ELSE IF ~containers_full.ok
                THEN OnJsonError(json_str)
                ELSE IF containers_minimal.ok
                  THEN ReturnWith(List(containers_minimal.val), TRUE, json_str)
                  ELSE ReturnWith(ErrorDict(MsgException(ErrNoGet)), TRUE,
                              json_str)
       ELSE IF ByteLen(buffer) > MaxBufferBytes
              THEN ReturnWith(ErrorDict(MsgTooLarge), FALSE, <<>>)
              ELSE Continue

\* the whole loop over the chunks of a stream that ends
RECURSIVE SseLoop(_, _)
SseLoop(buffer, chunks) ==
  IF chunks = <<>>
    THEN ErrorDict(MsgNoEvent)
    ELSE LET b == SseAppend(buffer, chunks[1])
             step == SseBody(b)
         IN IF step.ret THEN step.result ELSE SseLoop(b, Tail(chunks))

\* ---------------------------------------------------------------------------
\* Event streams
\* ---------------------------------------------------------------------------

\* chunks a stream delivers after the buffer limit is reached
ExtraChunks == 2

CapChunks == MaxBufferBytes \div ChunkBytes

Pads(n) == [i \in 1..n |-> PadChunk]

EventLine == EventMarker \o <<"\n">>

OtherEventLine ==
  <<"e", "v", "e", "n", "t", ":", " ", "c", "o", "n", "t", "a", "i", "n",
    "e", "r", "-", "e", "v", "e", "n", "t", "\n">>

DataLine(payload) == <<"d", "a", "t", "a", ":", " ">> \o payload \o Terminator

StreamOneFrame ==
  EventLine
    \o DataLine(<<"[", "{", "\"", "i", "d", "\"", ":", "1", "}", ",", "{", "}",
                  "]">>)

StreamInvalidByte ==
  EventLine \o DataLine(<<"[", "{", "}">> \o <<InvalidByte>> \o <<" ", "]">>)

StreamBadThenGood ==
  EventLine \o DataLine(<<"[", "{", "]">>)
    \o EventLine
    \o DataLine(<<"[", "{", "\"", "i", "d", "\"", ":", "2", "}", "]">>)

StreamOtherFirst ==
  OtherEventLine \o DataLine(<<"[", "{", "\"", "i", "d", "\"", ":", "1", "}", "]">>)
    \o EventLine \o DataLine(<<"[", "{", "\"", "i", "d", "\"", ":", "2", "}", "]">>)

StreamNonObject == EventLine \o DataLine(<<"[", "7", "]">>)

StreamTruncated == EventLine \o <<"d", "a", "t", "a", ":", " ", "[", "{", "}", "]">>

StreamEndless == EventLine \o DataMarker \o Pads(CapChunks + ExtraChunks)

StreamNoise == Pads(CapChunks + ExtraChunks)

StreamCapEdge ==
  Pads(CapChunks) \o <<PadRest>> \o EventLine \o DataLine(<<"[", "{", "}", "]">>)

SseStreams ==
  {StreamOneFrame, StreamInvalidByte, StreamBadThenGood, StreamOtherFirst,
   StreamNonObject, StreamTruncated, StreamEndless, StreamNoise,
   StreamCapEdge}

\* resp.status
Statuses == {200, 404, 500}

\* ---------------------------------------------------------------------------
\* query_dozzle_sse as a process
\* ---------------------------------------------------------------------------

SseDone(result, framed, json_str) ==
  [sse EXCEPT !.pc = "done", !.result = result, !.framed = framed,
              !.json_str = json_str]

SseReturned(result) ==
  [pc |-> "done", stream |-> <<>>, buffer |-> <<>>, pos |-> 0,
   result |-> result, framed |-> FALSE, json_str |-> <<>>, cut |-> TRUE,
   split |-> FALSE]

\* CONFIG has no enabled dozzle
SseDisabled ==
  /\ sse.pc = "idle"
  /\ sse' = SseReturned(ErrorDict(MsgDozzleNotEnabled))
  /\ UNCHANGED <<tool, conn>>
  /\ UNCHANGED <<decodeVars, trackerVars, pluginVars>>

\* session.get answers: a 200 opens the stream, another status is returned
SseConnect ==
  /\ sse.pc = "idle"
  /\ \E status \in Statuses :
       IF status = 200
         THEN \E s \in SseStreams :
                sse' = [pc |-> "reading", stream |-> s, buffer |-> <<>>,
                        pos |-> 0, result |-> [type |-> "none"],
                        framed |-> FALSE, json_str |-> <<>>, cut |-> FALSE,
                        split |-> FALSE]
         ELSE sse' = SseReturned(ErrorDict(MsgHttp(status)))
  /\ UNCHANGED <<tool, conn>>
  /\ UNCHANGED <<decodeVars, trackerVars, pluginVars>>

\* session.get raises: the total timeout, or another exception
SseConnectFails ==
  /\ sse.pc = "idle"
  /\ \E r \in {ErrorDict(MsgTimedOut),
               ErrorDict(MsgException(ErrConnReset))} :
       sse' = SseReturned(r)
  /\ UNCHANGED <<tool, conn>>
  /\ UNCHANGED <<decodeVars, trackerVars, pluginVars>>

\* one iteration of "async for chunk in resp.content.iter_chunked(4096)"
SseChunk ==
  /\ sse.pc = "reading"
  /\ \E k \in 1..(Len(sse.stream) - sse.pos) :
       LET chunk == SubSeq(sse.stream, sse.pos + 1, sse.pos + k)
           b == SseAppend(sse.buffer, chunk)
           step == SseBody(b)
       IN /\ ByteLen(chunk) <= ChunkBytes
          /\ sse' = [sse EXCEPT
                       !.buffer = b,
                       !.pos = sse.pos + k,
                       !.split = sse.pos > 0,
                       !.pc = IF step.ret THEN "done" ELSE "reading",
                       !.result = step.result,
                       !.framed = step.framed,
                       !.json_str = step.json_str]
  /\ UNCHANGED <<tool, conn>>
  /\ UNCHANGED <<decodeVars, trackerVars, pluginVars>>

\* the stream ends: the loop is left
SseEndOfStream ==
  /\ sse.pc = "reading"
  /\ sse.pos = Len(sse.stream)
  /\ sse' = SseDone(ErrorDict(MsgNoEvent), FALSE, <<>>)
  /\ UNCHANGED <<tool, conn>>
  /\ UNCHANGED <<decodeVars, trackerVars, pluginVars>>

\* the read raises: the total timeout of 3 s, or another exception
SseReadFails ==
  /\ sse.pc = "reading"
  /\ \E r \in {ErrorDict(MsgTimedOut),
               ErrorDict(MsgException(ErrConnReset))} :
       sse' = [SseDone(r, FALSE, <<>>) EXCEPT !.cut = TRUE]
  /\ UNCHANGED <<tool, conn>>
  /\ UNCHANGED <<decodeVars, trackerVars, pluginVars>>

InitSse ==
  /\ DecodeIdle
  /\ TrackerIdle
  /\ ServerIdle
  /\ PlugIdle

NextSse ==
  \/ SseDisabled
  \/ SseConnect
  \/ SseConnectFails
  \/ SseChunk
  \/ SseEndOfStream
  \/ SseReadFails

SpecSse == InitSse /\ [][NextSse]_vars

\* ---------------------------------------------------------------------------
\* Properties of query_dozzle_sse (SpecSse)
\* ---------------------------------------------------------------------------

SseText == DecodeIgnore(sse.buffer)

\* the loop ran and was not ended by the transport
SseRan == sse.pc # "idle" /\ ~sse.cut

\* C11: when the delivered bytes hold no frame terminator and the buffer has
\* passed the limit, the call has failed with the too-large error, also when
\* the event marker and the data marker are in the buffer
C11_TooLargeWithoutTerminator ==
  (SseRan /\ ByteLen(sse.buffer) > MaxBufferBytes
     /\ ~HasSub(SseText, Terminator))
    => (sse.pc = "done" /\ sse.result = ErrorDict(MsgTooLarge))

\* C12: at every point of the read loop the buffer holds at most the limit
\* plus one chunk
C12_BufferBounded ==
  SseRan => ByteLen(sse.buffer) <= MaxBufferBytes + ChunkBytes

\* C13: the data marker a payload is read from comes after the marker of the
\* containers-changed event
C13_DataAfterEventMarker ==
  (SseRan /\ sse.framed)
    => Find(SseText, DataMarker, 1) > Find(SseText, EventMarker, 1)

\* C14: a payload is parsed only when a terminator follows the data marker,
\* and it is the text from the data marker to the first such terminator
\* (stripped); a list is returned only from such a payload; while the markers
\* are there without a terminator the call does not return unless the stream
\* ends
C14_OnlyCompleteFrames ==
  SseRan =>
    LET ds == DataStart(SseText)
        de == Find(SseText, Terminator, ds)
    IN /\ sse.framed =>
            /\ HasSub(SseText, DataMarker)
            /\ de # 0
            /\ sse.json_str = Strip(SubSeq(SseText, ds, de - 1))
       /\ sse.result.type = "list" => sse.framed
       /\ (HasSub(SseText, EventMarker) /\ HasSub(SseText, DataMarker)
             /\ de = 0 /\ sse.pc = "done")
            => (sse.pos = Len(sse.stream)
                  /\ sse.result = ErrorDict(MsgNoEvent))

C14_Witness ==
  /\ sse.pc = "done"
  /\ sse.framed
  /\ sse.split
  /\ sse.stream = StreamOneFrame
  /\ sse.result = List(<<[id |-> Some(1)], [id |-> None]>>)

\* the result of a stream handed over as a single chunk
SseWhole(stream) == SseLoop(<<>>, <<stream>>)

\* C15 as stated: whatever the chunking, the result of a stream is the result
\* of the stream handed over as a single chunk
C15_ChunkingIndependent ==
  (SseRan /\ sse.pc = "done") => sse.result = SseWhole(sse.stream)

\* C15: for a stream of at most the buffer limit, whatever the chunking, the
\* result is the result of the stream handed over as a single chunk
C15_ChunkingIndependentBelowLimit ==
  (SseRan /\ sse.pc = "done" /\ ByteLen(sse.stream) <= MaxBufferBytes)
    => sse.result = SseWhole(sse.stream)

C15_Witness ==
  /\ sse.pc = "done"
  /\ ~sse.cut
  /\ sse.split
  /\ sse.stream = StreamInvalidByte
  /\ sse.result = List(<<[id |-> None]>>)

\* the buffer holds a complete frame whose payload json.loads rejects
BadFrameBuffered ==
  LET ds == DataStart(SseText)
      de == Find(SseText, Terminator, ds)
  IN /\ HasSub(SseText, EventMarker)
     /\ HasSub(SseText, DataMarker)
     /\ de # 0
     /\ ~JsonLoads(Strip(SubSeq(SseText, ds, de - 1))).ok

\* a containers-changed frame with a payload that decodes starts at i
ValidFrameAt(txt, i) ==
  LET head == EventLine \o DataMarker
      ds == i + Len(head) - 1
      de == Find(txt, Terminator, ds)
      loaded_ == JsonLoads(Strip(SubSeq(txt, ds, de - 1)))
  IN /\ SubSeq(txt, i, i + Len(head) - 1) = head
     /\ de # 0
     /\ loaded_.ok
     /\ ContainersMinimal(loaded_.val).ok

\* C16 as stated: after a payload that fails to decode, a later valid frame
\* of the stream is still read and delivered
C16_DecodeFailureKeepsReading ==
  (SseRan /\ sse.pc = "done" /\ sse.framed /\ ~JsonLoads(sse.json_str).ok
     /\ \E i \in 1..Len(sse.stream) :
          /\ i > DataStart(DecodeIgnore(sse.stream))
          /\ ValidFrameAt(DecodeIgnore(sse.stream), i))
    => sse.result.type = "list"

\* C16: a payload that fails to decode is returned as an error dict with the
\* length of the payload, and the read ends there: as soon as the buffer holds
\* such a frame the call has returned
C16_DecodeFailureEndsRead ==
  (SseRan /\ BadFrameBuffered)
    => /\ sse.pc = "done"
       /\ sse.framed
       /\ sse.result = Dict([error |-> MsgJsonError(ErrJsonDecode),
                             raw_length |-> Len(sse.json_str)])

C16_Witness ==
  /\ sse.pc = "done"
  /\ sse.stream = StreamBadThenGood
  /\ sse.pos < Len(sse.stream)
  /\ sse.result = Dict([error |-> MsgJsonError(ErrJsonDecode),
                        raw_length |-> 3])

\* ===========================================================================
\* src/server.py: the backend connectors
\*
\* A function returns a value or raises: Value and Raise. What the backend
\* does with a request is chosen by the environment: it answers with a status
\* and a body, the total timeout expires, or the transport raises.
\* ===========================================================================

Value(v) == [raised |-> FALSE, value |-> v, exc |-> "", msg |-> <<>>]

Raise(exc, msg) ==
  [raised |-> TRUE, value |-> [type |-> "none"], exc |-> exc, msg |-> msg]

HttpResponse(status, body) ==
  [kind |-> "response", status |-> status, body |-> body, msg |-> <<>>]

\* asyncio.TimeoutError, whose str is empty; body is never read
HttpTimeout(body) ==
  [kind |-> "timeout", status |-> 0, body |-> body, msg |-> <<>>]

HttpException(msg, body) ==
  [kind |-> "exception", status |-> 0, body |-> body, msg |-> msg]

\* "async with session.get(...)": the exception the environment raises
Transport(response) ==
  IF response.kind = "timeout"
    THEN Raise("TimeoutError", response.msg)
    ELSE Raise("Exception", response.msg)

\* v is a mapping with an 'error' entry
HasError(v) == v.type = "dict" /\ "error" \in DOMAIN v.map

\* --- query_netdata ----------------------------------------------------------

\* CONFIG['servers']
ConfigServers == {<<"n", "a", "s">>, <<"p", "i">>}

UnknownServers == {<<"x">>}

MsgUnknownServer(server_name) == <<"U", "n", "k", "n", "o", "w", "n", " ", "s", "e", "r", "v", "e", "r",
    ":", " ">> \o server_name

\* the body of the try block. A body is [json |-> whether it is JSON,
\* value |-> the value that JSON encodes]; resp.json() raises on the rest.
NetdataRequest(response) ==
  IF response.kind # "response"
    THEN Transport(response)
    ELSE IF response.status = 200
      THEN IF response.body.json
             THEN Value(response.body.value)
             ELSE Raise("Exception", ErrJsonDecode)
      ELSE Value(ErrorDict(MsgHttp(response.status)))

\* except asyncio.TimeoutError / except Exception as e
NetdataExceptNoTimeout(r) ==
  IF ~r.raised THEN r ELSE Value(ErrorDict(r.msg))

NetdataExcept(r) ==
  IF ~r.raised
    THEN r
    ELSE IF r.exc = "TimeoutError"
      THEN Value(ErrorDict(MsgTimedOut))
      ELSE Value(ErrorDict(r.msg))

query_netdata(server_name, response) ==
  IF server_name \notin ConfigServers
    THEN Value(ErrorDict(MsgUnknownServer(server_name)))
    ELSE NetdataExcept(NetdataRequest(response))

\* --- query_dozzle_sse as a function of the chunks served --------------------

\* the except clauses of query_dozzle_sse and query_dozzle_logs
DozzleExcept(r) ==
  IF ~r.raised
    THEN r
    ELSE IF r.exc = "TimeoutError"
      THEN Value(ErrorDict(MsgTimedOut))
      ELSE Value(ErrorDict(MsgException(r.msg)))

\* the body of a 200 response is the sequence of its chunks
SseRequest(response) ==
  IF response.kind # "response"
    THEN Transport(response)
    ELSE IF response.status = 200
      THEN Value(SseLoop(<<>>, response.body))
      ELSE Value(ErrorDict(MsgHttp(response.status)))

query_dozzle_sse(enabled, response) ==
  IF ~enabled
    THEN Value(ErrorDict(MsgDozzleNotEnabled))
    ELSE DozzleExcept(SseRequest(response))

\* --- query_dozzle_logs ------------------------------------------------------

\* tail = min(tail, 500)
MaxTail == 500

Min(a, b) == IF a <= b THEN a ELSE b

\* the default of several get calls
Unknown == <<"u", "n", "k", "n", "o", "w", "n">>

\* str(n) of an integer
PyStr(n) == IF n < 0 THEN <<"-">> \o IntToStr(0 - n) ELSE IntToStr(n)

\* d.get(key, default)
DictGetOr(d, key, default) == IF key \in DOMAIN d THEN Some(d[key]) ELSE default

\* the loop over text.strip().split('\n'): empty lines and lines json.loads
\* rejects are skipped; a line that is JSON but no object has no get
RECURSIVE ParseLogLines(_)
ParseLogLines(lines) ==
  IF lines = <<>>
    THEN Value(<<>>)
    ELSE LET line == lines[1]
             log_entry == JsonElement(line)
             rest == ParseLogLines(Tail(lines))
             entry == [message |-> DictGetOr(log_entry.fields, <<"m">>, Some(<<>>)),
                       timestamp |-> DictGetOr(log_entry.fields, <<"t", "s">>, Some(<<>>)),
                       stream |-> DictGetOr(log_entry.fields, <<"s">>, Some(Unknown))]
         IN IF line = <<>> \/ ~log_entry.ok
              THEN rest
              ELSE IF ~log_entry.obj
                THEN Raise("Exception", ErrNoGet)
                ELSE IF rest.raised
                  THEN rest
                  ELSE Value(<<entry>> \o rest.value)

\* logs[-tail:]
LastLines(logs, tail) ==
  LET n == Len(logs)
      start == IF tail > 0
                 THEN (IF n - tail < 0 THEN 0 ELSE n - tail)
                 ELSE Min(0 - tail, n)
  IN SubSeq(logs, start + 1, n)

MsgNoLogs ==
  <<"N", "o", " ", "l", "o", "g", "s", " ", "f", "o", "u", "n", "d", " ",
    "m", "a", "t", "c", "h", "i", "n", "g", " ", "t", "h", "e", " ", "q",
    "u", "e", "r", "y", " ", "c", "r", "i", "t", "e", "r", "i", "a">>

MsgShowing(tail, n) ==
  <<"S", "h", "o", "w", "i", "n", "g", " ", "l", "a", "s", "t", " ">>
    \o PyStr(Min(tail, n)) \o <<" ", "o", "f", " ">> \o PyStr(n)
    \o <<" ", "l", "o", "g", " ", "l", "i", "n", "e", "s">>

ScopeAll == <<"a", "l", "l", " ", "a", "v", "a", "i", "l", "a", "b", "l", "e", " ",
    "l", "o", "g", "s">>

\* the response built from the parsed logs, without from_time, to_time,
\* filter_pattern and levels
LogsResponse(logs, tail) ==
  LET n == Len(logs)
  IN Dict([log_count |-> n, total_available |-> n,
           query |-> [scope |-> ScopeAll],
           logs |-> IF n = 0 THEN <<>> ELSE LastLines(logs, tail),
           note |-> IF n = 0 THEN MsgNoLogs ELSE MsgShowing(tail, n)])

\* the body of a 200 response is the bytes of the JSON Lines text
LogsRequest(tail, response) ==
  IF response.kind # "response"
    THEN Transport(response)
    ELSE IF response.status = 200
      THEN LET txt == DecodeIgnore(response.body)
               logs == ParseLogLines(Split(Strip(txt), "\n"))
           IN IF logs.raised THEN logs
                             ELSE Value(LogsResponse(logs.value, tail))
      ELSE Value(ErrorDict(MsgHttp(response.status)))

query_dozzle_logs(enabled, tail, response) ==
  IF ~enabled
    THEN Value(ErrorDict(MsgDozzleNotEnabled))
    ELSE DozzleExcept(LogsRequest(Min(tail, MaxTail), response))

\* --- query_mikrotik ---------------------------------------------------------

MsgMikrotikNotEnabled ==
  <<"M", "i", "k", "r", "o", "T", "i", "k", " ", "n", "o", "t", " ", "e",
    "n", "a", "b", "l", "e", "d", " ", "i", "n", " ", "c", "o", "n", "f",
    "i", "g">>

MsgMikrotikFailed(e) ==
  <<"M", "i", "k", "r", "o", "T", "i", "k", " ", "q", "u", "e", "r", "y",
    " ", "f", "a", "i", "l", "e", "d", ":", " ">> \o e

\* str(e) of socket.timeout
ErrTimedOut == <<"t", "i", "m", "e", "d", " ", "o", "u", "t">>

\* str(value) if value is not None else None, for every key of every item
Serialize(items) ==
  [i \in 1..Len(items) |->
     [k \in DOMAIN items[i] |->
        IF items[i][k].none THEN None ELSE Some(PyStr(items[i][k].val))]]

\* _query: librouteros answers with items, or connect / path raises
query_mikrotik(enabled, answer) ==
  IF ~enabled
    THEN Value(ErrorDict(MsgMikrotikNotEnabled))
    ELSE IF answer.kind = "items"
      THEN Value(Dict([data |-> Serialize(answer.items)]))
      ELSE Value(ErrorDict(MsgMikrotikFailed(answer.msg)))

\* ---------------------------------------------------------------------------
\* The connectors called one at a time
\* ---------------------------------------------------------------------------

\* what the request came to, as the backend decided it
HttpOutcome(response, decodable) ==
  IF response.kind = "timeout" THEN "timeout"
  ELSE IF response.kind = "exception" THEN "transport"
  ELSE IF response.status # 200 THEN "status"
  ELSE IF decodable THEN "ok" ELSE "undecodable"

Returned(connector, request, response, outcome, ret) ==
  [pc |-> "returned", connector |-> connector, request |-> request,
   response |-> response, outcome |-> outcome, ret |-> ret]

Responses(bodies) ==
  {HttpResponse(s, b) : s \in Statuses, b \in bodies}
    \cup {HttpTimeout(b) : b \in bodies}
    \cup {HttpException(ErrConnReset, b) : b \in bodies}

InfoValue == Dict([version |-> <<"v", "1">>])

NetdataBodies ==
  {[json |-> TRUE, value |-> InfoValue], [json |-> FALSE, value |-> InfoValue]}

CallNetdata ==
  /\ \E server_name \in ConfigServers \cup UnknownServers,
        response \in Responses(NetdataBodies) :
       conn' = Returned("query_netdata", server_name, response,
                        IF server_name \in ConfigServers
                          THEN HttpOutcome(response, response.body.json)
                          ELSE "unavailable",
                        query_netdata(server_name, response))
  /\ UNCHANGED <<sse, tool>>
  /\ UNCHANGED <<decodeVars, trackerVars, pluginVars>>

\* s.join(chunks)
RECURSIVE Flatten(_)
Flatten(chunks) ==
  IF chunks = <<>> THEN <<>> ELSE chunks[1] \o Flatten(Tail(chunks))

SseBodies ==
  {<<StreamOneFrame>>,
   <<SubSeq(StreamOneFrame, 1, 30), SubSeq(StreamOneFrame, 31, Len(StreamOneFrame))>>,
   <<StreamBadThenGood>>, <<StreamNonObject>>, <<StreamTruncated>>}

\* the stream is one frame whose payload decodes to a list of objects
SseDecodable(chunks) == ValidFrameAt(DecodeIgnore(Flatten(chunks)), 1)

CallDozzleSse ==
  /\ \E enabled \in BOOLEAN, response \in Responses(SseBodies) :
       conn' = Returned("query_dozzle_sse", enabled, response,
                        IF enabled
                          THEN HttpOutcome(response, SseDecodable(response.body))
                          ELSE "unavailable",
                        query_dozzle_sse(enabled, response))
  /\ UNCHANGED <<sse, tool>>
  /\ UNCHANGED <<decodeVars, trackerVars, pluginVars>>

LogBodies ==
  {<<"{", "\"", "m", "\"", ":", "1", "}", "\n", "{", "\"", "m", "\"", ":",
    "2", "}", "\n">>,
   <<"{", "\"", "m", "\"", ":", "1", "}", "\n", "o", "o", "p", "s", "\n",
    "{", "\"", "s", "\"", ":", "2", "}", "\n">>,
   <<"o", "o", "p", "s", "\n">>,
   <<>>,
   <<"7", "\n">>}

\* every line of the body that is not empty decodes to an object
LogsDecodable(body) ==
  LET lines == Split(Strip(DecodeIgnore(body)), "\n")
  IN \A i \in 1..Len(lines) :
       lines[i] = <<>>
         \/ (JsonElement(lines[i]).ok /\ JsonElement(lines[i]).obj)

\* the tail argument of a call
Tails == {0, 1, 600}

CallDozzleLogs ==
  /\ \E enabled \in BOOLEAN, tail \in Tails, response \in Responses(LogBodies) :
       conn' = Returned("query_dozzle_logs",
                        [enabled |-> enabled, tail |-> tail], response,
                        IF enabled
                          THEN HttpOutcome(response, LogsDecodable(response.body))
                          ELSE "unavailable",
                        query_dozzle_logs(enabled, tail, response))
  /\ UNCHANGED <<sse, tool>>
  /\ UNCHANGED <<decodeVars, trackerVars, pluginVars>>

RouterItems(items) == [kind |-> "items", items |-> items, msg |-> <<>>]

RouterRaises(msg) == [kind |-> "exception", items |-> <<>>, msg |-> msg]

RouterAnswers ==
  {RouterItems(<<>>),
   RouterItems(<<[uptime |-> Some(7), comment |-> None]>>),
   RouterRaises(ErrTimedOut),
   RouterRaises(ErrConnReset)}

CallMikrotik ==
  /\ \E enabled \in BOOLEAN, answer \in RouterAnswers :
       conn' = Returned("query_mikrotik", enabled, answer,
                        IF ~enabled THEN "unavailable"
                        ELSE IF answer.kind = "items" THEN "ok"
                        ELSE IF answer.msg = ErrTimedOut THEN "timeout"
                        ELSE "transport",
                        query_mikrotik(enabled, answer))
  /\ UNCHANGED <<sse, tool>>
  /\ UNCHANGED <<decodeVars, trackerVars, pluginVars>>

InitConn ==
  /\ DecodeIdle
  /\ TrackerIdle
  /\ ServerIdle
  /\ PlugIdle

NextConn ==
  \/ CallNetdata
  \/ CallDozzleSse
  \/ CallDozzleLogs
  \/ CallMikrotik

SpecConn == InitConn /\ [][NextConn]_vars

\* ---------------------------------------------------------------------------
\* Properties of the connectors (SpecConn)
\* ---------------------------------------------------------------------------

ConnReturned == conn.pc = "returned"

HttpConnectors == {"query_netdata", "query_dozzle_sse", "query_dozzle_logs"}

\* C17 as stated: no connector raises; every outcome other than a 200 with a
\* decodable body is returned as a mapping with an 'error' entry, a timeout as
\* 'Request timed out' and a status other than 200 as 'HTTP <code>'
C17_ConnectorsReturnErrors ==
  ConnReturned =>
    /\ ~conn.ret.raised
    /\ conn.outcome # "ok" => HasError(conn.ret.value)
    /\ conn.outcome = "timeout"
         => conn.ret.value = ErrorDict(MsgTimedOut)
    /\ conn.outcome = "status"
         => conn.ret.value = ErrorDict(MsgHttp(conn.response.status))

\* the return of query_dozzle_logs for a body with lines that do not decode:
\* the log response of the lines that do
SkippedLinesResponse ==
  LET v == conn.ret.value
      lines == Split(Strip(DecodeIgnore(conn.response.body)), "\n")
      good == {i \in 1..Len(lines) : JsonElement(lines[i]).ok}
  IN /\ v.type = "dict"
     /\ "logs" \in DOMAIN v.map
     /\ v.map.log_count = Cardinality(good)

\* C17: no connector raises; every outcome other than a 200 with a decodable
\* body is returned as a mapping with an 'error' entry, except that
\* query_dozzle_logs skips the lines that do not decode and returns the log
\* response of the others; in the HTTP connectors a timeout gives 'Request
\* timed out' and a status other than 200 'HTTP <code>'; query_mikrotik gives
\* 'MikroTik query failed: <message>' for every failure, a timeout included
C17_ConnectorsReturnValues ==
  ConnReturned =>
    /\ ~conn.ret.raised
    /\ conn.outcome # "ok" =>
         \/ HasError(conn.ret.value)
         \/ /\ conn.connector = "query_dozzle_logs"
            /\ conn.outcome = "undecodable"
            /\ SkippedLinesResponse
    /\ (conn.outcome = "timeout" /\ conn.connector \in HttpConnectors)
         => conn.ret.value = ErrorDict(MsgTimedOut)
    /\ conn.outcome = "status"
         => conn.ret.value = ErrorDict(MsgHttp(conn.response.status))
    /\ (conn.connector = "query_mikrotik"
          /\ conn.outcome \in {"timeout", "transport"})
         => conn.ret.value = ErrorDict(MsgMikrotikFailed(conn.response.msg))

C17_Witness ==
  /\ ConnReturned
  /\ conn.connector = "query_netdata"
  /\ conn.outcome = "timeout"
  /\ conn.ret = Value(ErrorDict(MsgTimedOut))

\* ===========================================================================
\* src/server.py: call_tool, the Netdata tools
\*
\* A backend call is [server, role, chart]: role "info" and "charts" are the
\* endpoints of that name, "cpu" and "ram" the data endpoint of system.cpu
\* and system.ram, "chart" the data endpoint of a discovered chart. The
\* response of a tool is the value handed to json.dumps.
\* ===========================================================================

\* CONFIG['servers'].keys(), in the order of the file
ConfigServerList == <<<<"n", "a", "s">>, <<"p", "i">>>>

\* chart ids of the model
NetEth0 == <<"n", "e", "t", ".", "e", "t", "h", "0">>

NetPacketsEth0 == <<"n", "e", "t", "_", "p", "a", "c", "k", "e", "t", "s", ".", "e", "t", "h", "0">>

DiskRoot == <<"d", "i", "s", "k", "_", "s", "p", "a", "c", "e", ".", "_">>

DiskBoot == <<"d", "i", "s", "k", "_", "s", "p", "a", "c", "e", ".", "_", "b", "o", "o", "t">>

CgroupWebCpu == <<"c", "g", "r", "o", "u", "p", "_", "w", "e", "b", ".", "c", "p", "u">>

CgroupWebMem == <<"c", "g", "r", "o", "u", "p", "_", "w", "e", "b", ".", "m", "e", "m">>

DockerDbIo == <<"d", "o", "c", "k", "e", "r", "_", "d", "b", ".", "i", "o">>

SystemCpu == <<"s", "y", "s", "t", "e", "m", ".", "c", "p", "u">>

BackendCall(server, role, chart) ==
  [server |-> server, role |-> role, chart |-> chart]

NetdataTools ==
  {"get_all_servers_overview", "get_server_health", "get_network_stats",
   "list_containers", "get_container_stats"}

DiscoveryTools == NetdataTools \ {"get_all_servers_overview"}

\* the three queries of one server in get_all_servers_overview
RECURSIVE OverviewCalls(_)
OverviewCalls(servers) ==
  IF servers = <<>>
    THEN <<>>
    ELSE <<BackendCall(servers[1], "info", <<>>),
           BackendCall(servers[1], "cpu", <<>>),
           BackendCall(servers[1], "ram", <<>>)>>
           \o OverviewCalls(Tail(servers))

\* the awaits of a tool up to and including its 'charts' query
FirstCalls(name, server_name) ==
  IF name = "get_all_servers_overview"
    THEN OverviewCalls(ConfigServerList)
    ELSE IF name = "get_server_health"
      THEN <<BackendCall(server_name, "info", <<>>),
             BackendCall(server_name, "cpu", <<>>),
             BackendCall(server_name, "ram", <<>>),
             BackendCall(server_name, "charts", <<>>)>>
      ELSE <<BackendCall(server_name, "charts", <<>>)>>

\* the test a tool applies to a chart id before it queries the chart
ChartWanted(name, chart_id) ==
  IF name = "get_server_health"
    THEN StartsWith(chart_id, <<"d", "i", "s", "k", "_", "s", "p", "a", "c", "e", ".">>)
    ELSE IF name = "get_network_stats"
      THEN StartsWith(chart_id, <<"n", "e", "t", ".">>)
             \/ StartsWith(chart_id, <<"n", "e", "t", "_", "p", "a", "c", "k", "e",
                                       "t", "s", ".">>)
      ELSE IF name = "get_container_stats"
        THEN HasSub(chart_id, <<"c", "g", "r", "o", "u", "p">>)
               /\ (HasSub(chart_id, <<"c", "p", "u">>) \/ HasSub(chart_id, <<"m", "e", "m">>))
        ELSE FALSE

\* 'charts' in charts: the ids of charts['charts'], in the order of the body
HasCharts(charts) == charts.type = "dict" /\ "charts" \in DOMAIN charts.map

\* if 'error' in charts: return the error alone
ShortCircuitNever(name, charts) == FALSE

ShortCircuit(name, charts) ==
  name # "get_server_health" /\ HasError(charts)

\* the per-chart queries a tool makes once 'charts' has returned: one for
\* each key of charts['charts'] that passes the test of the tool
ChartCallsFixed(name, server_name, charts) ==
  IF HasError(charts)
    THEN <<>>
    ELSE <<BackendCall(server_name, "chart", DiskRoot),
           BackendCall(server_name, "chart", NetEth0),
           BackendCall(server_name, "chart", CgroupWebCpu)>>

ChartCalls(name, server_name, charts) ==
  IF HasError(charts) \/ ~HasCharts(charts)
    THEN <<>>
    ELSE LET ids == SelectSeq(charts.map.charts,
                              LAMBDA c : ChartWanted(name, c))
         IN [i \in 1..Len(ids) |-> BackendCall(server_name, "chart", ids[i])]

\* --- decoded JSON values ---------------------------------------------------------

\* besides Dict and List: numbers, strings and booleans
JNum(n) == [type |-> "num", val |-> n]

JStr(s) == [type |-> "str", val |-> s]

JBool(b) == [type |-> "bool", val |-> b]

\* bool(v) of a decoded JSON value
JTruthy(v) ==
  CASE v.type = "dict" -> DOMAIN v.map # {}
    [] v.type = "list" -> v.items # <<>>
    [] v.type = "num" -> v.val # 0
    [] v.type = "str" -> v.val # <<>>
    [] v.type = "bool" -> v.val

\* bool(r) of what a fetch returned: None on a failed request, else the value
Truthy(r) == ~r.none /\ JTruthy(r.val)

\* v.get(key, default): an object without get raises AttributeError
JGet(v, key, default) ==
  IF v.type = "dict"
    THEN Value(IF key \in DOMAIN v.map THEN v.map[key] ELSE default)
    ELSE Raise("AttributeError", <<"o", "b", "j", "e", "c", "t", " ", "h", "a", "s", " ", "n", "o", " ",
    "a", "t", "t", "r", "i", "b", "u", "t", "e", " ", "'", "g", "e", "t",
    "'">>)

\* int(v) of a decoded JSON value
JInt(v) ==
  CASE v.type = "num" -> Value(v.val)
    [] v.type = "bool" -> Value(IF v.val THEN 1 ELSE 0)
    [] v.type = "str" ->
         IF ToFloat(v.val).ok /\ ToFloat(v.val).val.cls = "fin"
           THEN Value(ToFloat(v.val).val.val)
           ELSE Raise("ValueError", <<"i", "n", "v", "a", "l", "i", "d", " ", "l", "i", "t", "e", "r", "a",
    "l", " ", "f", "o", "r", " ", "i", "n", "t", "(", ")">>)
    [] OTHER -> Raise("TypeError", <<"i", "n", "t", "(", ")", " ", "a", "r", "g", "u", "m", "e", "n", "t",
    " ", "m", "u", "s", "t", " ", "b", "e", " ", "a", " ", "s", "t", "r",
    "i", "n", "g", " ", "o", "r", " ", "a", " ", "n", "u", "m", "b", "e",
    "r">>)

\* len(v) of a decoded JSON value
JLen(v) ==
  CASE v.type = "list" -> Value(Len(v.items))
    [] v.type = "dict" -> Value(Cardinality(DOMAIN v.map))
    [] v.type = "str" -> Value(Len(v.val))
    [] OTHER -> Raise("TypeError", <<"o", "b", "j", "e", "c", "t", " ", "h", "a", "s", " ", "n", "o", " ",
    "l", "e", "n", "(", ")">>)

\* --- parse_netdata_metric ---------------------------------------------------

\* dict(zip(ks, vs))
ZipDict(ks, vs) ==
  LET n == Min(Len(ks), Len(vs))
  IN [k \in {ks[i] : i \in 1..n} |->
        vs[CHOOSE i \in 1..n : ks[i] = k /\ \A j \in (i + 1)..n : ks[j] # k]]

\* d.get(key, default) on a dict given as a record
RecGet(map, key, default) == IF key \in DOMAIN map THEN map[key] ELSE default

\* if 'error' in data: return {'error': data['error']}
PassErrorWhole(d) == d

PassError(d) == ErrorDict(d.map.error)

\* the except branch: {'error': f'Parse error: {e}', 'raw_data': data}
ParseError(e, d) ==
  Dict([error |-> <<"P", "a", "r", "s", "e", " ", "e", "r", "r", "o", "r", ":", " ">> \o e, raw_data |-> d])

\* if result['data'] and result['labels']
HasLatestRowsOnly(labels, rows) == JTruthy(rows)

HasLatest(labels, rows) == JTruthy(rows) /\ JTruthy(labels)

\* parse_netdata_metric(data); 'labels' and 'data' are lists or numbers in
\* the model, a row of 'data' is a list
parse_netdata_metric(d) ==
  IF HasError(d)
    THEN PassError(d)
    ELSE LET labels == RecGet(d.map, "labels", List(<<>>))
             rows == RecGet(d.map, "data", List(<<>>))
             points == JLen(rows)
             result == [labels |-> labels, data |-> rows,
                        points |-> points.value,
                        after |-> RecGet(d.map, "after", None),
                        before |-> RecGet(d.map, "before", None),
                        dimension_names |->
                          RecGet(d.map, "dimension_names", List(<<>>)),
                        dimension_ids |->
                          RecGet(d.map, "dimension_ids", List(<<>>))]
         IN IF points.raised
              THEN ParseError(points.msg, d)
              ELSE IF ~HasLatest(labels, rows)
                THEN Dict(result)
                ELSE IF labels.type # "list"
                  THEN ParseError(
                         <<"o", "b", "j", "e", "c", "t", " ", "i", "s", " ", "n",
                           "o", "t", " ", "i", "t", "e", "r", "a", "b", "l", "e">>, d)
                  ELSE Dict([latest |-> ZipDict(labels.items, rows.items[1])]
                              @@ result)

\* --- the responses of the tools ----------------------------------------------

\* the value a completed call returned
ValueOf(vals, call) == vals[CHOOSE i \in 1..Len(vals) : vals[i].call = call].value

\* the map filled by the loop over the discovered charts:
\* m[chart_id] = parse_netdata_metric(data)
PerChartMapSuccessOnly(vals) ==
  LET done == {i \in 1..Len(vals) :
                 vals[i].call.role = "chart" /\ ~HasError(vals[i].value)}
  IN [c \in {vals[i].call.chart : i \in done} |->
        parse_netdata_metric(
          vals[CHOOSE i \in done : vals[i].call.chart = c].value)]

PerChartMap(vals) ==
  LET done == {i \in 1..Len(vals) : vals[i].call.role = "chart"}
  IN [c \in {vals[i].call.chart : i \in done} |->
        parse_netdata_metric(
          vals[CHOOSE i \in done : vals[i].call.chart = c].value)]

\* results[server_name] of get_all_servers_overview, without 'context'
OverviewEntry(vals, server) ==
  LET info == ValueOf(vals, BackendCall(server, "info", <<>>))
      online == ~HasError(info)
  IN [status |-> IF online THEN "online" ELSE "offline",
      hostname |-> IF online
                     THEN Some(RecGet(info.map, "hostname", Unknown))
                     ELSE None,
      cpu |-> parse_netdata_metric(
                ValueOf(vals, BackendCall(server, "cpu", <<>>))),
      ram |-> parse_netdata_metric(
                ValueOf(vals, BackendCall(server, "ram", <<>>)))]

MsgNoDiskCharts == <<"U", "n", "a", "b", "l", "e", " ", "t", "o", " ", "r", "e", "t", "r",
    "i", "e", "v", "e", " ", "d", "i", "s", "k", " ", "c", "h", "a", "r",
    "t", "s">>

\* the container names of list_containers: parts[-1] of the ids that hold
\* 'cgroup_' or 'docker_' and a dot; the sorted list without duplicates is
\* given as the set of its elements
ContainerNames(ids) ==
  LET parts(c) == Split(c, ".")
      picked == {i \in 1..Len(ids) :
                   /\ \/ HasSub(ids[i], <<"c", "g", "r", "o", "u", "p", "_">>)
                      \/ HasSub(ids[i], <<"d", "o", "c", "k", "e", "r", "_">>)
                   /\ Len(parts(ids[i])) > 1}
  IN {parts(ids[i])[Len(parts(ids[i]))] : i \in picked}

\* the value a tool hands to json.dumps when it has made all its calls,
\* without 'context'
Assemble(name, server_name, vals) ==
  LET charts == ValueOf(vals, BackendCall(server_name, "charts", <<>>))
      ids == IF HasCharts(charts) THEN charts.map.charts ELSE <<>>
  IN IF name = "get_all_servers_overview"
       THEN Dict([s \in {ConfigServerList[i] : i \in 1..Len(ConfigServerList)}
                    |-> OverviewEntry(vals, s)])
     ELSE IF name = "get_server_health"
       THEN Dict([server_name |-> server_name,
                  info |-> ValueOf(vals, BackendCall(server_name, "info", <<>>)),
                  cpu |-> parse_netdata_metric(
                            ValueOf(vals, BackendCall(server_name, "cpu", <<>>))),
                  ram |-> parse_netdata_metric(
                            ValueOf(vals, BackendCall(server_name, "ram", <<>>))),
                  disk |-> IF ~HasError(charts) /\ HasCharts(charts)
                             THEN Dict(PerChartMap(vals))
                             ELSE ErrorDict(RecGet(charts.map, "error",
                                                   MsgNoDiskCharts))])
     ELSE IF name = "get_network_stats"
       THEN Dict([server_name |-> server_name,
                  time_range_seconds |-> 600,
                  available_charts |->
                    SelectSeq(ids, LAMBDA c : ChartWanted(name, c)),
                  network_data |-> PerChartMap(vals)])
     ELSE IF name = "list_containers"
       THEN Dict([server_name |-> server_name,
                  container_count |-> Cardinality(ContainerNames(ids)),
                  containers |-> ContainerNames(ids)])
     ELSE Dict([server_name |-> server_name,
                container_stats |-> PerChartMap(vals)])

\* --- what the Netdata backends answer ----------------------------------------

ChartLists ==
  {<<>>,
   <<DiskRoot, NetEth0, CgroupWebCpu>>,
   <<NetEth0, NetPacketsEth0, DiskRoot, DiskBoot>>,
   <<CgroupWebCpu, CgroupWebMem, DockerDbIo, SystemCpu>>}

JsonBody(v) == [json |-> TRUE, value |-> v]

OkBodies(role) ==
  IF role = "info"
    THEN {JsonBody(Dict([hostname |-> <<"n", "a", "s">>]))}
    ELSE IF role = "charts"
      THEN {JsonBody(Dict([charts |-> l])) : l \in ChartLists}
             \cup {JsonBody(InfoValue)}
      ELSE {JsonBody(Dict([labels |-> List(<<"time", "user">>),
                           data |-> List(<<<<1, 2>>>>)]))}

\* a 200 with a body of the endpoint, a 500, or the timeout
ToolResponses(role) ==
  {HttpResponse(200, b) : b \in OkBodies(role)}
    \cup {HttpResponse(500, JsonBody(InfoValue)), HttpTimeout(JsonBody(InfoValue))}

\* --- call_tool as a process ---------------------------------------------------

\* the calls a loop has in flight before it suspends: "await" inside the
\* "for" sends one query and waits for it
IssueCountAll(todo) == Len(todo)

IssueCount(todo) == IF todo = <<>> THEN 0 ELSE 1

RemoveAt(s, i) == SubSeq(s, 1, i - 1) \o SubSeq(s, i + 1, Len(s))

Max(a, b) == IF a >= b THEN a ELSE b

\* send the next queries of todo and suspend; a query whose result was an
\* error is not sent again
IssueRetry(t, todo) ==
  LET last == t.vals[Len(t.vals)]
      again == /\ t.vals # <<>>
               /\ HasError(last.value)
               /\ Cardinality({i \in 1..Len(t.issued) :
                                 t.issued[i] = last.call}) = 1
      next == IF again THEN <<last.call>> \o todo ELSE todo
      k == IssueCount(next)
  IN [t EXCEPT !.pc = "await",
               !.flying = SubSeq(next, 1, k),
               !.todo = SubSeq(next, k + 1, Len(next)),
               !.issued = t.issued \o SubSeq(next, 1, k),
               !.maxflying = Max(t.maxflying, k)]

Issue(t, todo) ==
  LET k == IssueCount(todo)
  IN [t EXCEPT !.pc = "await",
               !.flying = SubSeq(todo, 1, k),
               !.todo = SubSeq(todo, k + 1, Len(todo)),
               !.issued = t.issued \o SubSeq(todo, 1, k),
               !.maxflying = Max(t.maxflying, k)]

Finish(t, response) ==
  [t EXCEPT !.pc = "done", !.flying = <<>>, !.todo = <<>>,
            !.response = response]

\* call_tool is entered and runs to its first await
ToolInvoke ==
  /\ tool.pc = "idle"
  /\ \E name \in NetdataTools,
        server_name \in ConfigServers \cup UnknownServers :
       /\ name = "get_all_servers_overview" => server_name = ConfigServerList[1]
       /\ tool' = Issue([pc |-> "await", name |-> name,
                         server_name |-> server_name, stage |-> "first",
                         todo |-> <<>>, flying |-> <<>>, issued |-> <<>>,
                         vals |-> <<>>, response |-> [type |-> "none"],
                         maxflying |-> 0],
                        FirstCalls(name, server_name))
  /\ UNCHANGED <<sse, conn>>
  /\ UNCHANGED <<decodeVars, trackerVars, pluginVars>>

\* the code after the first awaits: the 'charts' result decides what follows
AfterFirst(t) ==
  LET charts == ValueOf(t.vals, BackendCall(t.server_name, "charts", <<>>))
      more == ChartCalls(t.name, t.server_name, charts)
  IN IF t.name = "get_all_servers_overview"
       THEN Finish(t, Assemble(t.name, t.server_name, t.vals))
       ELSE IF ShortCircuit(t.name, charts)
         THEN Finish(t, ErrorDict(charts.map.error))
         ELSE IF more = <<>>
           THEN Finish(t, Assemble(t.name, t.server_name, t.vals))
           ELSE Issue([t EXCEPT !.stage = "charts"], more)

\* a query in flight returns and call_tool runs on to its next await or to
\* its return
ToolResume ==
  /\ tool.pc = "await"
  /\ \E i \in 1..Len(tool.flying) :
       \E response \in ToolResponses(tool.flying[i].role) :
         LET call == tool.flying[i]
             ret == query_netdata(call.server, response)
             t == [tool EXCEPT
                     !.flying = RemoveAt(tool.flying, i),
                     !.vals = Append(tool.vals,
                                     [call |-> call, value |-> ret.value])]
         IN /\ ~ret.raised
            /\ tool' = IF t.flying # <<>> THEN t
                       ELSE IF t.todo # <<>> THEN Issue(t, t.todo)
                       ELSE IF t.stage = "first" THEN AfterFirst(t)
                       ELSE Finish(t, Assemble(t.name, t.server_name, t.vals))
  /\ UNCHANGED <<sse, conn>>
  /\ UNCHANGED <<decodeVars, trackerVars, pluginVars>>

InitTool ==
  /\ DecodeIdle
  /\ TrackerIdle
  /\ ServerIdle
  /\ PlugIdle

NextTool ==
  \/ ToolInvoke
  \/ ToolResume

SpecTool == InitTool /\ [][NextTool]_vars

\* ---------------------------------------------------------------------------
\* Properties of call_tool (SpecTool)
\* ---------------------------------------------------------------------------

ToolDone == tool.pc = "done"

ChartsCall == BackendCall(tool.server_name, "charts", <<>>)

\* the 'charts' query of the invocation has returned
Discovered ==
  /\ tool.pc # "idle"
  /\ tool.name \in DiscoveryTools
  /\ \E i \in 1..Len(tool.vals) : tool.vals[i].call = ChartsCall

ChartsValue == ValueOf(tool.vals, ChartsCall)

DiscoveryFailed == Discovered /\ HasError(ChartsValue)

NoChartCallIssued ==
  \A i \in 1..Len(tool.issued) : tool.issued[i].role # "chart"

\* C18 as stated: in every discovery tool a failed 'charts' query ends the
\* operation with the error alone as the response, and no per-chart query is
\* sent
C18_DiscoveryFailureShortCircuits ==
  DiscoveryFailed =>
    /\ ToolDone
    /\ NoChartCallIssued
    /\ tool.response = ErrorDict(ChartsValue.map.error)

\* C18: a failed 'charts' query ends the operation and no per-chart query is
\* sent; get_network_stats, list_containers and get_container_stats respond
\* with the error alone, get_server_health with its info, cpu and ram results
\* and the error as its disk entry
C18_DiscoveryFailureEndsFanOut ==
  DiscoveryFailed =>
    /\ ToolDone
    /\ NoChartCallIssued
    /\ IF tool.name = "get_server_health"
         THEN /\ ~HasError(tool.response)
              /\ DOMAIN tool.response.map
                   = {"server_name", "info", "cpu", "ram", "disk"}
              /\ tool.response.map.disk = ErrorDict(ChartsValue.map.error)
         ELSE tool.response = ErrorDict(ChartsValue.map.error)

C18_Witness ==
  /\ ToolDone
  /\ tool.name = "get_network_stats"
  /\ tool.server_name \in ConfigServers
  /\ tool.issued = <<ChartsCall>>
  /\ tool.response = ErrorDict(MsgTimedOut)

\* the charts of the discovery result that the tool queries
WantedCharts ==
  IF HasError(ChartsValue) \/ ~HasCharts(ChartsValue)
    THEN {}
    ELSE {c \in {ChartsValue.map.charts[i] :
                   i \in 1..Len(ChartsValue.map.charts)} :
            ChartWanted(tool.name, c)}

\* the entry of a target is the error of its query when that failed, and a
\* parsed series when it did not
EntryOf(entry, call) ==
  LET v == ValueOf(tool.vals, call)
  IN IF HasError(v)
       THEN entry = ErrorDict(v.map.error)
       ELSE ~HasError(entry) /\ entry.map.points = 1

PerChartEntries(m) ==
  /\ DOMAIN m = WantedCharts
  /\ \A c \in DOMAIN m :
       EntryOf(m[c], BackendCall(tool.server_name, "chart", c))

\* the invocation returned the error of its 'charts' query alone
ShortCircuited ==
  /\ tool.name \in DiscoveryTools
  /\ ShortCircuit(tool.name, ChartsValue)

FanOutWidth ==
  IF tool.name = "get_all_servers_overview"
    THEN Len(ConfigServerList)
    ELSE Cardinality({i \in 1..Len(tool.issued) :
                        tool.issued[i].role = "chart"})

SystemRam == <<"s", "y", "s", "t", "e", "m", ".", "r", "a", "m">>

\* the endpoint a call addresses on its server: 'info', 'charts', or the data
\* endpoint of a chart
Target(call) ==
  [server |-> call.server,
   endpoint |-> IF call.role \in {"info", "charts"} THEN call.role ELSE "data",
   chart |-> IF call.role = "cpu" THEN SystemCpu
             ELSE IF call.role = "ram" THEN SystemRam
             ELSE call.chart]

IssuedCalls == {tool.issued[i] : i \in 1..Len(tool.issued)}

\* the calls the tool has to make, given what its 'charts' query returned
RequiredCalls ==
  IF tool.name = "get_all_servers_overview"
    THEN {BackendCall(s, r, <<>>) :
            s \in ConfigServers, r \in {"info", "cpu", "ram"}}
    ELSE {BackendCall(tool.server_name, r, <<>>) :
            r \in IF tool.name = "get_server_health"
                    THEN {"info", "cpu", "ram", "charts"}
                    ELSE {"charts"}}
           \cup {BackendCall(tool.server_name, "chart", c) : c \in WantedCharts}

\* a query that returned an error
FailedAt(i) == HasError(tool.vals[i].value)

\* C21: within one invocation every backend call is attempted exactly once:
\* no two queries address the same endpoint of the same server, a query that
\* returned an error or timed out is not sent again, and when the tool
\* returns it has sent each query it has to make
C21_EachCallOnce ==
  tool.pc # "idle" =>
    /\ \A i, j \in 1..Len(tool.issued) :
         Target(tool.issued[i]) = Target(tool.issued[j]) => i = j
    /\ \A i \in 1..Len(tool.vals) :
         FailedAt(i) =>
           Cardinality({j \in 1..Len(tool.issued) :
                          tool.issued[j] = tool.vals[i].call}) = 1
    /\ ToolDone => IssuedCalls = RequiredCalls

C21_Witness ==
  /\ ToolDone
  /\ tool.name = "get_server_health"
  /\ Len(tool.issued) = 6
  /\ FailedAt(2)
  /\ FailedAt(5)
  /\ ~FailedAt(6)

\* a query of the fan-out over the discovered charts
PerChartCall(call) == call.role = "chart"

DiscoveredIds ==
  IF Discovered /\ ~HasError(ChartsValue) /\ HasCharts(ChartsValue)
    THEN {ChartsValue.map.charts[i] : i \in 1..Len(ChartsValue.map.charts)}
    ELSE {}

\* C22: in every state in which a per-chart data query has been sent, the
\* 'charts' query of the invocation has already returned, and the chart of
\* the data query is one of the identifiers of the discovery result
C22_DiscoveryBeforeData ==
  tool.pc # "idle" =>
    \A i \in 1..Len(tool.issued) :
      PerChartCall(tool.issued[i]) =>
        /\ tool.name \in DiscoveryTools
        /\ Discovered
        /\ \A j \in 1..Len(tool.flying) : tool.flying[j] # ChartsCall
        /\ \E k \in 1..(i - 1) : tool.issued[k] = ChartsCall
        /\ tool.issued[i].server = tool.server_name
        /\ tool.issued[i].chart \in DiscoveredIds

C22_Witness ==
  /\ tool.pc = "await"
  /\ tool.name = "get_server_health"
  /\ tool.flying = <<BackendCall(tool.server_name, "chart", DiskBoot)>>
  /\ DiscoveredIds = {NetEth0, NetPacketsEth0, DiskRoot, DiskBoot}

\* ===========================================================================
\* src/netdata-plugins: main, create_charts and update_charts of the five
\* plugins, seen from standard output
\*
\* A line of output is [kind, id, by]: kind is the first word of the line, id
\* the chart of a CHART or BEGIN line and the dimension of a DIMENSION or SET
\* line, by the function that printed it. The value of a SET line is left
\* out.
\* ===========================================================================

PluginNames == {"earnings", "helium", "lighthouse", "octez", "reth"}

\* an entry of CHARTS: its key, options[0] ("" stands for None) and line[0]
\* of each of its lines
Chart(chart_id, option0, lines) ==
  [chart_id |-> chart_id, option0 |-> option0, lines |-> lines]

EarningsCharts ==
  <<Chart("eth_earnings_rate", "", <<"eth_hourly_rate">>),
    Chart("eth_balance_change", "", <<"eth_balance_diff">>),
    Chart("eth_daily_estimate", "", <<"eth_daily_eth">>),
    Chart("tezos_earnings_rate", "", <<"tezos_hourly_rate">>),
    Chart("tezos_balance_change", "", <<"tezos_balance_diff">>),
    Chart("tezos_daily_estimate", "", <<"tezos_daily_xtz">>)>>

HeliumCharts ==
  <<Chart("helium_status", "", <<"online", "synced">>),
    Chart("helium_block_height", "helium.height", <<"block_height">>),
    Chart("helium_witnesses", "", <<"witness_count">>),
    Chart("helium_rewards_24h", "helium.rewards_24h", <<"rewards_24h">>),
    Chart("helium_rewards_30d", "helium.rewards_30d", <<"rewards_30d">>),
    Chart("helium_challenger_activity", "", <<"challenges_24h">>)>>

LighthouseCharts ==
  <<Chart("lighthouse_sync", "", <<"slots_behind">>),
    Chart("lighthouse_peers", "", <<"connected_peers">>),
    Chart("lighthouse_attestations", "", <<"successful", "failed">>),
    Chart("lighthouse_validator_balance", "", <<"total_balance">>),
    Chart("lighthouse_proposals", "",
          <<"successful_proposals", "failed_proposals">>),
    Chart("lighthouse_sync_committee", "", <<"sync_committee_messages">>),
    Chart("lighthouse_head", "", <<"head_slot">>)>>

OctezCharts ==
  <<Chart("octez_sync", "octez.sync", <<"blocks_behind">>),
    Chart("octez_peers", "octez.peers", <<"connected">>),
    Chart("octez_head", "octez.head", <<"level">>),
    Chart("octez_operations", "octez.operations", <<"operations">>)>>

RethCharts ==
  <<Chart("reth_sync", "", <<"syncing">>),
    Chart("reth_peers", "", <<"active_peers">>),
    Chart("reth_chain", "", <<"head_block">>),
    Chart("reth_gas", "", <<"gas_used">>)>>

\* CHARTS of a plugin, in the order of the dict
CHARTS(name) ==
  CASE name = "earnings" -> EarningsCharts
    [] name = "helium" -> HeliumCharts
    [] name = "lighthouse" -> LighthouseCharts
    [] name = "octez" -> OctezCharts
    [] name = "reth" -> RethCharts

OutLine(kind, id, by) == [kind |-> kind, id |-> id, by |-> by]

PluginChart == "netdata.plugin_pythond"

\* options[0] or chart_id
DeclaredId(chart) ==
  IF chart.option0 = "" THEN chart.chart_id ELSE chart.option0

\* create_charts: a CHART line and the DIMENSION lines of each chart
RECURSIVE create_charts(_)
create_charts(charts) ==
  IF charts = <<>>
    THEN <<>>
    ELSE <<OutLine("CHART", DeclaredId(charts[1]), "create_charts")>>
           \o [i \in 1..Len(charts[1].lines) |->
                 OutLine("DIMENSION", charts[1].lines[i], "create_charts")]
           \o create_charts(Tail(charts))

\* the identifier on a BEGIN line: octez prints options[0], the other
\* plugins the key of the chart
UpdateId(name, chart) ==
  IF name = "octez"
    THEN IF chart.option0 = "" THEN "None" ELSE chart.option0
    ELSE chart.chart_id

RECURSIVE UpdateLines(_, _)
UpdateLines(name, charts) ==
  IF charts = <<>>
    THEN <<>>
    ELSE <<OutLine("BEGIN", UpdateId(name, charts[1]), "update_charts")>>
           \o [i \in 1..Len(charts[1].lines) |->
                 OutLine("SET", charts[1].lines[i], "update_charts")]
           \o <<OutLine("END", "", "update_charts")>>
           \o UpdateLines(name, Tail(charts))

\* "if not data": None and the empty dict
Falsy(d) == d.none \/ DOMAIN d.val = {}

\* update_charts(data); helium's main tests data itself before the call
update_charts(name, d) ==
  IF Falsy(d) THEN <<>> ELSE UpdateLines(name, CHARTS(name))

\* what main prints before create_charts
MainHeader(name) ==
  IF name = "octez"
    THEN <<>>
    ELSE <<OutLine("CHART", PluginChart, "main"),
           OutLine("DIMENSION", name, "main")>>

\* what main prints after update_charts in every iteration
ExecTime(name) ==
  IF name = "octez"
    THEN <<OutLine("END", "", "main")>>
    ELSE <<OutLine("BEGIN", PluginChart, "main"), OutLine("SET", name, "main"),
           OutLine("END", "", "main")>>

\* --- get_data of the plugins --------------------------------------------------

\* int(x) on a float
PyInt(f) ==
  IF f.cls = "fin" THEN Value(f.val)
  ELSE IF f.cls = "nan"
    THEN Raise("ValueError", <<"c", "a", "n", "n", "o", "t", " ", "c", "o", "n", "v", "e", "r", "t",
    " ", "f", "l", "o", "a", "t", " ", "N", "a", "N", " ", "t", "o", " ",
    "i", "n", "t", "e", "g", "e", "r">>)
    ELSE Raise("OverflowError", <<"c", "a", "n", "n", "o", "t", " ", "c", "o", "n", "v", "e", "r", "t",
    " ", "f", "l", "o", "a", "t", " ", "i", "n", "f", "i", "n", "i", "t",
    "y", " ", "t", "o", " ", "i", "n", "t", "e", "g", "e", "r">>)

\* x > 0 on a float
FloatGt0(f) == f.cls = "inf" \/ (f.cls = "fin" /\ f.val > 0)

\* metrics.get(key, 0)
MetricGet(metrics, key) ==
  IF key \in DOMAIN metrics THEN metrics[key] ELSE Finite(0)

\* the statements data[key] = ... of a get_data, in their order: the first
\* that raises ends get_data, else the dict is returned
FillData(items) ==
  LET bad == {i \in 1..Len(items) : items[i][2].raised}
  IN IF bad # {}
       THEN items[CHOOSE i \in bad : \A j \in bad : i <= j][2]
       ELSE Value(Some([k \in {items[i][1] : i \in 1..Len(items)} |->
                          items[CHOOSE i \in 1..Len(items) :
                                  items[i][1] = k][2].value]))

RethSync == <<"r", "e", "t", "h", "_", "s", "t", "a", "g", "e", "s", "_", "c", "h",
    "e", "c", "k", "p", "o", "i", "n", "t", "_", "s", "y", "n", "c">>

RethSessions == <<"r", "e", "t", "h", "_", "n", "e", "t", "w", "o", "r", "k", "_", "a",
    "c", "t", "i", "v", "e", "_", "s", "e", "s", "s", "i", "o", "n", "s">>

RethHead == <<"r", "e", "t", "h", "_", "c", "o", "n", "s", "e", "n", "s", "u", "s",
    "_", "e", "n", "g", "i", "n", "e", "_", "h", "e", "a", "d", "_", "b",
    "l", "o", "c", "k", "_", "n", "u", "m", "b", "e", "r">>

RethGas == <<"r", "e", "t", "h", "_", "e", "x", "e", "c", "u", "t", "o", "r", "_",
    "b", "l", "o", "c", "k", "_", "g", "a", "s", "_", "u", "s", "e", "d">>

\* reth get_data; body is what fetch_metrics returned
reth_get_data(body) ==
  IF body.none \/ body.val = <<>>
    THEN Value(None)
    ELSE LET metrics == reth_parse_prometheus_metrics(body.val)
         IN FillData(
              <<<<"syncing",
                  Value(IF FloatGt0(MetricGet(metrics, RethSync))
                          THEN 1 ELSE 0)>>,
                <<"active_peers", PyInt(MetricGet(metrics, RethSessions))>>,
                <<"head_block", PyInt(MetricGet(metrics, RethHead))>>,
                <<"gas_used", PyInt(MetricGet(metrics, RethGas))>>>>)

BeaconHeadSlot == <<"b", "e", "a", "c", "o", "n", "_", "h", "e", "a", "d", "_", "s", "l",
    "o", "t">>

SyncSlotsPerSecond == <<"s", "y", "n", "c", "_", "s", "l", "o", "t", "s", "_", "p", "e", "r",
    "_", "s", "e", "c", "o", "n", "d">>

Libp2pPeers == <<"l", "i", "b", "p", "2", "p", "_", "p", "e", "e", "r", "s">>

AttesterHit == <<"v", "a", "l", "i", "d", "a", "t", "o", "r", "_", "m", "o", "n", "i",
    "t", "o", "r", "_", "p", "r", "e", "v", "_", "e", "p", "o", "c", "h",
    "_", "o", "n", "_", "c", "h", "a", "i", "n", "_", "a", "t", "t", "e",
    "s", "t", "e", "r", "_", "h", "i", "t">>

AttesterMiss == <<"v", "a", "l", "i", "d", "a", "t", "o", "r", "_", "m", "o", "n", "i",
    "t", "o", "r", "_", "p", "r", "e", "v", "_", "e", "p", "o", "c", "h",
    "_", "o", "n", "_", "c", "h", "a", "i", "n", "_", "a", "t", "t", "e",
    "s", "t", "e", "r", "_", "m", "i", "s", "s">>

ProposerHit == <<"v", "a", "l", "i", "d", "a", "t", "o", "r", "_", "m", "o", "n", "i",
    "t", "o", "r", "_", "p", "r", "e", "v", "_", "e", "p", "o", "c", "h",
    "_", "o", "n", "_", "c", "h", "a", "i", "n", "_", "p", "r", "o", "p",
    "o", "s", "e", "r", "_", "h", "i", "t">>

ProposerMiss == <<"v", "a", "l", "i", "d", "a", "t", "o", "r", "_", "m", "o", "n", "i",
    "t", "o", "r", "_", "p", "r", "e", "v", "_", "e", "p", "o", "c", "h",
    "_", "o", "n", "_", "c", "h", "a", "i", "n", "_", "p", "r", "o", "p",
    "o", "s", "e", "r", "_", "m", "i", "s", "s">>

SyncCommitteeMessages ==
  <<"v", "a", "l", "i", "d", "a", "t", "o", "r", "_", "m", "o", "n", "i",
    "t", "o", "r", "_", "p", "r", "e", "v", "_", "e", "p", "o", "c", "h",
    "_", "o", "n", "_", "c", "h", "a", "i", "n", "_", "s", "y", "n", "c",
    "_", "c", "o", "m", "m", "i", "t", "t", "e", "e", "_", "m", "e", "s",
    "s", "a", "g", "e", "s">>

\* the keys of a dict that hold pat
KeysWith(m, pat) == {k \in DOMAIN m : HasSub(k, pat)}

\* lighthouse get_data; the texts are what fetch_metrics returned
lighthouse_get_data(consensus_text, validator_text) ==
  IF consensus_text.none \/ consensus_text.val = <<>>
    THEN Value(None)
    ELSE LET cm == lighthouse_parse_prometheus_metrics(consensus_text.val)
             vm == IF validator_text.none \/ validator_text.val = <<>>
                     THEN EmptyMap
                     ELSE lighthouse_parse_prometheus_metrics(validator_text.val)
             syncing == \E k \in KeysWith(cm, SyncSlotsPerSecond) :
                          FloatGt0(cm[k])
         IN FillData(
              <<<<"slots_behind", Value(IF syncing THEN 100 ELSE 0)>>,
                <<"connected_peers", PyInt(MetricGet(cm, Libp2pPeers))>>,
                <<"head_slot", PyInt(MetricGet(cm, BeaconHeadSlot))>>,
                <<"successful",
                  PyInt(SumOver(vm, KeysWith(vm, AttesterHit)))>>,
                <<"failed",
                  PyInt(SumOver(vm, KeysWith(vm, AttesterMiss)
                                      \ KeysWith(vm, AttesterHit)))>>,
                <<"total_balance", PyInt(SumBalances(vm))>>,
                <<"successful_proposals",
                  PyInt(SumOver(vm, KeysWith(vm, ProposerHit)))>>,
                <<"failed_proposals",
                  PyInt(SumOver(vm, KeysWith(vm, ProposerMiss)
                                      \ KeysWith(vm, ProposerHit)))>>,
                <<"sync_committee_messages",
                  PyInt(SumOver(vm, KeysWith(vm, SyncCommitteeMessages)))>>>>)

RECURSIVE SumSeq(_)
SumSeq(s) == IF s = <<>> THEN 0 ELSE s[1] + SumSeq(Tail(s))

\* sum(len(p) for p in v) on a list; other values are not iterable
SumOfLens(v) ==
  IF v.type # "list"
    THEN Raise("TypeError", <<"o", "b", "j", "e", "c", "t", " ", "i", "s", " ", "n", "o", "t", " ",
    "i", "t", "e", "r", "a", "b", "l", "e">>)
    ELSE LET lens == [i \in 1..Len(v.items) |-> JLen(v.items[i])]
             bad == {i \in 1..Len(lens) : lens[i].raised}
         IN IF bad # {}
              THEN lens[CHOOSE i \in bad : \A j \in bad : i <= j]
              ELSE Value(SumSeq([i \in 1..Len(lens) |-> lens[i].value]))

Syncing == <<"s", "y", "n", "c", "i", "n", "g">>

\* octez get_data; the arguments are what the four fetch_json calls return
octez_get_data(head, connections, operations, bootstrapped) ==
  IF ~Truthy(head)
    THEN Value(None)
    ELSE LET level == JGet(head.val, "level", JNum(0))
             flags == JGet(bootstrapped.val, "bootstrapped", JBool(FALSE))
             sync_state == JGet(bootstrapped.val, "sync_state", JStr(Unknown))
         IN FillData(
              <<<<"level",
                  IF level.raised THEN level ELSE JInt(level.value)>>,
                <<"connected",
                  IF Truthy(connections)
                    THEN JLen(connections.val) ELSE Value(0)>>,
                <<"operations",
                  IF Truthy(operations)
                    THEN SumOfLens(operations.val) ELSE Value(0)>>,
                <<"blocks_behind",
                  IF ~Truthy(bootstrapped) THEN Value(0)
                  ELSE IF flags.raised THEN flags
                  ELSE IF ~JTruthy(flags.value)
                            \/ (sync_state.value.type = "str"
                                  /\ sync_state.value.val = Syncing)
                    THEN Value(10)
                    ELSE Value(0)>>>>)

\* "if data and 'data' in data" on what fetch_helium_api returned; a list
\* holds no 'data' in the model
HasData(r) ==
  Truthy(r) /\ r.val.type = "dict" /\ "data" \in DOMAIN r.val.map

\* get_hotspot_info: data['data'] or None
get_hotspot_info(r) == IF HasData(r) THEN Some(r.val.map.data) ELSE None

\* get_witness_list: data['data'] or []
get_witness_list(r) == IF HasData(r) THEN r.val.map.data ELSE List(<<>>)

\* get_rewards_sum: int(data['data'].get('total', 0)) or 0
get_rewards_sum(r) ==
  IF ~HasData(r)
    THEN Value(0)
    ELSE LET total == JGet(r.val.map.data, "total", JNum(0))
         IN IF total.raised THEN total ELSE JInt(total.value)

\* get_activity_count('poc_request_v1'): data['data'].get(filter_type, 0)
get_activity_count(r) ==
  IF ~HasData(r)
    THEN Value(JNum(0))
    ELSE JGet(r.val.map.data, "poc_request_v1", JNum(0))

P2p == <<"/", "p", "2", "p", "/">>

Online == <<"o", "n", "l", "i", "n", "e">>

\* any('/p2p/' not in addr for addr in listen_addrs) if listen_addrs else
\* False, on a list of strings
IsListening(listen_addrs) ==
  IF ~JTruthy(listen_addrs)
    THEN Value(FALSE)
    ELSE IF listen_addrs.type # "list"
              \/ \E i \in 1..Len(listen_addrs.items) :
                   listen_addrs.items[i].type # "str"
      THEN Raise("TypeError", <<"a", "r", "g", "u", "m", "e", "n", "t", " ", "i", "s", " ", "n", "o",
    "t", " ", "i", "t", "e", "r", "a", "b", "l", "e">>)
      ELSE Value(\E i \in 1..Len(listen_addrs.items) :
                   ~HasSub(listen_addrs.items[i].val, P2p))

\* helium get_data; the arguments are what the five fetch_helium_api calls
\* return. The values of the dict are kept as JSON values where the code
\* stores what the backend sent.
helium_get_data(hotspot_r, witnessed_r, rewards_24h_r, rewards_30d_r, activity_r) ==
  LET hotspot == get_hotspot_info(hotspot_r)
  IN IF hotspot.none \/ ~JTruthy(hotspot.val)
       THEN Value(None)
     ELSE IF hotspot.val.type # "dict"
       THEN JGet(hotspot.val, "status", Dict(EmptyMap))
       ELSE LET status == JGet(hotspot.val, "status", Dict(EmptyMap))
                online_v == JGet(status.value, "online", JNum(0))
                online ==
                  IF status.raised THEN status
                  ELSE IF online_v.raised THEN online_v
                  ELSE Value(IF online_v.value.type = "str"
                                  /\ online_v.value.val = Online
                               THEN 1 ELSE 0)
                listening ==
                  IsListening(JGet(hotspot.val, "listen_addrs",
                                   List(<<>>)).value)
            IN FillData(
                 <<<<"online", online>>,
                   <<"block_height", JGet(hotspot.val, "block", JNum(0))>>,
                   <<"synced",
                     IF online.raised THEN online
                     ELSE IF listening.raised THEN listening
                     ELSE Value(IF listening.value /\ online.value = 1
                                  THEN 1 ELSE 0)>>,
                   <<"witness_count", JLen(get_witness_list(witnessed_r))>>,
                   <<"rewards_24h", get_rewards_sum(rewards_24h_r)>>,
                   <<"rewards_30d", get_rewards_sum(rewards_30d_r)>>,
                   <<"challenges_24h", get_activity_count(activity_r)>>>>)

\* earnings get_data as one step: load_state, the two observations and
\* save_state; file is STATE_FILE, eth and tezos what the two fetches
\* returned, outcome how the write of the file goes
earnings_get_data(file, eth, tezos, now, outcome) ==
  LET st0 == load_state(file)
      c1 == calculate_earnings(eth.val, st0, "eth", now)
      st1 == IF eth.none THEN st0 ELSE c1.state
      d1 == IF eth.none
              THEN PutZeros(EmptyMap, "eth")
              ELSE PutResult(EmptyMap, "eth", c1.ret)
      c2 == calculate_earnings(tezos.val, st1, "tezos", now)
      st2 == IF tezos.none THEN st1 ELSE c2.state
      d2 == IF tezos.none
              THEN PutZeros(d1, "tezos")
              ELSE PutResult(d1, "tezos", c2.ret)
      unusable == Raise("TypeError", <<"a", "r", "g", "u", "m", "e", "n", "t", " ", "i", "s", " ", "n", "o",
    "t", " ", "i", "t", "e", "r", "a", "b", "l", "e">>)
  IN IF ~eth.none /\ c1.raised
       THEN [ret |-> unusable, file |-> file]
       ELSE IF ~tezos.none /\ c2.raised
         THEN [ret |-> unusable, file |-> file]
         ELSE [ret |-> Value(Some(d2)),
               file |-> save_state(st2, file, outcome).file]

\* --- what the backends of the plugins serve ------------------------------------

\* number of iterations of main's loop explored
MaxPluginCycles == 2

Line(name, value) == name \o <<" ">> \o value \o <<"\n">>

V12 == <<"1", "2">>

\* bodies of the reth metrics endpoint; None is a failed request
RethBodies ==
  <<None, Some(<<>>),
    Some(Line(RethSessions, V12)),
    Some(Line(RethSync, V12) \o Line(RethHead, V1000)),
    Some(Line(RethSessions, <<"N", "a", "N">>)),
    Some(Line(RethGas, <<"+", "I", "n", "f">>)),
    Some(Line(Foo, Bar) \o Line(RethSessions, V12))>>

ConsensusBodies ==
  <<None,
    Some(Line(Libp2pPeers, V12) \o Line(BeaconHeadSlot, V1000)),
    Some(Line(SyncSlotsPerSecond, V12)),
    Some(Line(Libp2pPeers, <<"N", "a", "N">>))>>

ValidatorBodies ==
  <<None,
    Some(Line(BalancePrefix \o LabelV1, V3000)
           \o Line(AttesterHit \o LabelV1, V12)),
    Some(Line(BalancePrefix, <<"+", "I", "n", "f">>))>>

\* what fetch_json returns for the four endpoints of octez
OctezHeads ==
  <<None, Some(Dict(EmptyMap)), Some(Dict([level |-> JNum(5)])),
    Some(Dict([level |-> JStr(Bar)])), Some(List(<<JNum(5)>>))>>

OctezConnections == <<None, Some(List(<<JNum(1), JNum(2)>>)), Some(JNum(7))>>

OctezOperations ==
  <<None, Some(List(<<List(<<JNum(1), JNum(2)>>), List(<<>>)>>))>>

OctezBootstrapped ==
  <<None,
    Some(Dict([bootstrapped |-> JBool(TRUE), sync_state |-> JStr(<<"s", "y", "n", "c", "e", "d">>)])),
    Some(Dict([bootstrapped |-> JBool(FALSE)]))>>

\* what fetch_helium_api returns for the endpoints of helium
HeliumHotspots ==
  <<None,
    Some(Dict([data |-> Dict([status |-> Dict([online |-> JStr(Online)]),
                              block |-> JNum(5),
                              listen_addrs |-> List(<<JStr(<<"/", "i", "p", "4", "/", "1">>)>>)])])),
    Some(Dict([data |-> List(<<JNum(1)>>)])),
    Some(Dict([error |-> JStr(Bar)]))>>

HeliumWitnessed == <<None, Some(Dict([data |-> List(<<JNum(1), JNum(2)>>)]))>>

HeliumRewards ==
  <<None, Some(Dict([data |-> Dict([total |-> JNum(3)])])),
    Some(Dict([data |-> List(<<JNum(3)>>)]))>>

HeliumActivity == <<None, Some(Dict([data |-> Dict([poc_request_v1 |-> JNum(2)])]))>>

\* STATE_FILE when the earnings plugin starts
StartFiles == <<FileAbsent, FilePickle(NotADict)>>

\* --- the plugin process --------------------------------------------------------

Running(name, header) ==
  [pc |-> "loop", name |-> name, header |-> header, cycles |-> 0,
   data |-> None, out |-> <<>>, exit |-> "", exc |-> "", file |-> FileAbsent]

\* the script is started: main prints its header and the chart definitions;
\* helium exits when HOTSPOT_ADDRESS is the placeholder
PluginStart ==
  /\ plug.pc = "idle"
  /\ \E name \in PluginNames, configured \in BOOLEAN, i \in 1..Len(StartFiles) :
       /\ name # "helium" => configured
       /\ name # "earnings" => i = 1
       /\ plug' =
            IF name = "helium" /\ ~configured
              THEN [Running(name, <<>>) EXCEPT !.pc = "exited",
                                               !.exit = "not configured"]
              ELSE [Running(name, MainHeader(name) \o create_charts(CHARTS(name)))
                      EXCEPT !.file = StartFiles[i]]
  /\ UNCHANGED <<decodeVars, trackerVars, serverVars>>

\* the rest of an iteration of main's loop once get_data has ended: an
\* exception leaves main and the script exits with status 1, else
\* update_charts and the execution time are printed
AfterGetData(p, ret) ==
  IF ret.raised
    THEN [p EXCEPT !.pc = "exited", !.exit = "exception in get_data",
                   !.exc = ret.exc, !.data = None, !.out = <<>>]
    ELSE [p EXCEPT !.cycles = p.cycles + 1,
                   !.data = ret.value,
                   !.out = update_charts(p.name, ret.value)
                             \o ExecTime(p.name)]

RethCycle ==
  /\ plug.pc = "loop" /\ plug.name = "reth" /\ plug.cycles < MaxPluginCycles
  /\ \E i \in 1..Len(RethBodies) :
       plug' = AfterGetData(plug, reth_get_data(RethBodies[i]))
  /\ UNCHANGED <<decodeVars, trackerVars, serverVars>>

LighthouseCycle ==
  /\ plug.pc = "loop" /\ plug.name = "lighthouse"
  /\ plug.cycles < MaxPluginCycles
  /\ \E i \in 1..Len(ConsensusBodies), j \in 1..Len(ValidatorBodies) :
       plug' = AfterGetData(plug, lighthouse_get_data(ConsensusBodies[i],
                                                      ValidatorBodies[j]))
  /\ UNCHANGED <<decodeVars, trackerVars, serverVars>>

OctezCycle ==
  /\ plug.pc = "loop" /\ plug.name = "octez" /\ plug.cycles < MaxPluginCycles
  /\ \E i \in 1..Len(OctezHeads), j \in 1..Len(OctezConnections),
        k \in 1..Len(OctezOperations), l \in 1..Len(OctezBootstrapped) :
       plug' = AfterGetData(plug,
                 octez_get_data(OctezHeads[i], OctezConnections[j],
                                OctezOperations[k], OctezBootstrapped[l]))
  /\ UNCHANGED <<decodeVars, trackerVars, serverVars>>

HeliumCycle ==
  /\ plug.pc = "loop" /\ plug.name = "helium" /\ plug.cycles < MaxPluginCycles
  /\ \E i \in 1..Len(HeliumHotspots), j \in 1..Len(HeliumWitnessed),
        k \in 1..Len(HeliumRewards), l \in 1..Len(HeliumRewards),
        m \in 1..Len(HeliumActivity) :
       plug' = AfterGetData(plug,
                 helium_get_data(HeliumHotspots[i], HeliumWitnessed[j],
                                 HeliumRewards[k], HeliumRewards[l],
                                 HeliumActivity[m]))
  /\ UNCHANGED <<decodeVars, trackerVars, serverVars>>

EarningsCycle ==
  /\ plug.pc = "loop" /\ plug.name = "earnings"
  /\ plug.cycles < MaxPluginCycles
  /\ \E eth \in EthFetches, tezos \in TezosFetches, outcome \in SaveOutcomes :
       LET r == earnings_get_data(plug.file, eth, tezos,
                                  plug.cycles * TickSeconds, outcome)
       IN plug' = [AfterGetData(plug, r.ret) EXCEPT !.file = r.file]
  /\ UNCHANGED <<decodeVars, trackerVars, serverVars>>

InitPlugin ==
  /\ DecodeIdle
  /\ TrackerIdle
  /\ ServerIdle
  /\ PlugIdle

NextPlugin ==
  \/ PluginStart
  \/ RethCycle
  \/ LighthouseCycle
  \/ OctezCycle
  \/ HeliumCycle
  \/ EarningsCycle

SpecPlugin == InitPlugin /\ [][NextPlugin]_vars

\* ---------------------------------------------------------------------------
\* Properties of the plugin processes (SpecPlugin)
\* ---------------------------------------------------------------------------

\* the script left main's loop on an exception raised in get_data
ExitedInGetData ==
  plug.pc = "exited" /\ plug.exit = "exception in get_data"

\* the exception came from the content of STATE_FILE, which only the earnings
\* plugin reads, and not from what a backend returned
StateFileFatal == plug.name = "earnings" /\ plug.file = FilePickle(NotADict)

\* C23: whatever content a backend returns (a non-finite metric value, a JSON
\* body of unexpected shape, a missing field), the main loop of each plugin
\* completes the cycle and goes on to the next one: no plugin exits on an
\* exception raised from the content of a backend
C23_NoBackendContentIsFatal ==
  ExitedInGetData => StateFileFatal

\* the identifiers declared by the CHART lines printed so far
DeclaredCharts ==
  {plug.header[i].id :
     i \in {j \in 1..Len(plug.header) : plug.header[j].kind = "CHART"}}

\* C28: every BEGIN line printed by update_charts names a chart that
\* create_charts declared with a CHART line
C28_BeginNamesDeclaredChart ==
  plug.pc = "loop" =>
    \A i \in 1..Len(plug.out) :
      (plug.out[i].kind = "BEGIN" /\ plug.out[i].by = "update_charts") =>
        plug.out[i].id \in DeclaredCharts

\* number of lines of a kind among the first n lines of a cycle
CountKind(out, kind, n) == Cardinality({i \in 1..n : out[i].kind = kind})

\* charts open before line i: the BEGIN lines not yet closed by an END
OpenBefore(out, i) ==
  CountKind(out, "BEGIN", i - 1) - CountKind(out, "END", i - 1)

\* C29: in the output of every cycle BEGIN and END are balanced: a BEGIN
\* opens a chart when none is open, every SET and every END comes while a
\* chart is open, and no chart is open at the end of the cycle; also in a
\* cycle whose data fetch failed
C29_BeginEndBalanced ==
  (plug.pc = "loop" /\ plug.cycles > 0) =>
    /\ \A i \in 1..Len(plug.out) :
         OpenBefore(plug.out, i)
           = IF plug.out[i].kind = "BEGIN" THEN 0 ELSE 1
    /\ OpenBefore(plug.out, Len(plug.out) + 1) = 0

\* ---------------------------------------------------------------------------
\* Lines the decoders drop (SpecDrop)
\* ---------------------------------------------------------------------------

\* what follows the name and the label block of a line: a number, a word,
\* or nothing (the line is then a single token or ends with its label block)
DropValues == {V1000, Bar, <<>>}

DropLines ==
  [name : MetricNames, labels : {<<>>, LabelV1}, value : DropValues]

DropExpositions == UNION {[1..n -> DropLines] : n \in 1..MaxLines}

\* a backend serves a text with lines that cannot be decoded
InitDrop ==
  /\ TrackerIdle
  /\ ServerIdle
  /\ PlugIdle
  /\ expo \in DropExpositions
  /\ text = RenderText(expo)
  /\ decoded = [p \in Plugins |-> NotDecoded]

SpecDrop == InitDrop /\ [][NextDecode]_vars

\* a line without a numerically parseable value: 'foo bar', a single token
\* 'foo', a label block with nothing after it
Undecodable(l) == ~IsNumeric(l)

\* the decoder of a plugin
DecodeOf(p, t) ==
  CASE p = "earnings" -> earnings_parse_prometheus_metrics(t)
    [] p = "lighthouse" -> lighthouse_parse_prometheus_metrics(t)
    [] p = "reth" -> reth_parse_prometheus_metrics(t)

\* the exposition without its i-th line
WithoutLine(ls, i) == SubSeq(ls, 1, i - 1) \o SubSeq(ls, i + 1, Len(ls))

\* the key a decoder would use for a line
KeyOf(p, l) ==
  IF p = "lighthouse" /\ HasLabels(l) THEN l.name \o l.labels ELSE l.name

\* C24: a line that has no numerically parseable value produces no entry and
\* leaves the entries of the other lines as they are: the decoded mapping is
\* the mapping decoded from the text without that line
C24_BadLineDropped ==
  \A p \in Plugins :
    decoded[p].ran =>
      \A i \in 1..Len(expo) :
        Undecodable(expo[i]) =>
          /\ decoded[p].metrics = DecodeOf(p, RenderText(WithoutLine(expo, i)))
          /\ (Len(expo) = 1 => decoded[p].metrics = EmptyMap)

C24_Witness ==
  /\ decoded["lighthouse"].ran
  /\ decoded["earnings"].ran
  /\ Len(expo) = 2
  /\ expo[1] = [name |-> Foo, labels |-> LabelV1, value |-> <<>>]
  /\ expo[2].value = V1000
  /\ DOMAIN decoded["lighthouse"].metrics = {KeyOf("lighthouse", expo[2])}
  /\ decoded["earnings"].metrics[expo[2].name] = Finite(1000)

\* ---------------------------------------------------------------------------
\* parse_netdata_metric applied to a payload and to its own result
\* ---------------------------------------------------------------------------

\* a key of the payload: absent, or present with a value
Field(key, opt) == IF opt.none THEN EmptyMap ELSE key :> opt.val

\* the payloads of the model: 'labels' and 'data' absent, a list or a number,
\* with or without an 'error' and an 'after' entry
LabelChoices ==
  <<None, Some(List(<<>>)), Some(List(<<"time">>)),
    Some(List(<<"time", "user">>)), Some(JNum(5))>>

RowChoices ==
  <<None, Some(List(<<>>)), Some(List(<<<<1, 2>>>>)),
    Some(List(<<<<3>>, <<1, 2>>>>)), Some(JNum(5))>>

ErrorChoices == <<None, Some(<<"t", "i", "m", "e", "o", "u", "t">>)>>

AfterChoices == <<None, Some(JNum(7))>>

MetricPayload(l, r, e, a) ==
  Dict(Field("labels", LabelChoices[l]) @@ Field("data", RowChoices[r])
         @@ Field("error", ErrorChoices[e]) @@ Field("after", AfterChoices[a]))

\* result = parse_netdata_metric(payload)
Normalize ==
  /\ conn = ConnIdle
  /\ \E l \in 1..Len(LabelChoices), r \in 1..Len(RowChoices),
        e \in 1..Len(ErrorChoices), a \in 1..Len(AfterChoices) :
       LET payload == MetricPayload(l, r, e, a)
       IN conn' = [pc |-> "parsed", call |-> "parse_netdata_metric",
                   payload |-> payload, passes |-> 1,
                   first |-> parse_netdata_metric(payload),
                   result |-> parse_netdata_metric(payload)]
  /\ UNCHANGED <<sse, tool, decodeVars, trackerVars, pluginVars>>

\* result = parse_netdata_metric(result)
NormalizeAgain ==
  /\ conn.pc = "parsed"
  /\ conn.passes = 1
  /\ conn' = [conn EXCEPT !.passes = 2,
                          !.result = parse_netdata_metric(conn.result)]
  /\ UNCHANGED <<sse, tool, decodeVars, trackerVars, pluginVars>>

InitMetric ==
  /\ DecodeIdle
  /\ TrackerIdle
  /\ ServerIdle
  /\ PlugIdle

NextMetric ==
  \/ Normalize
  \/ NormalizeAgain

SpecMetric == InitMetric /\ [][NextMetric]_vars

\* ---------------------------------------------------------------------------
\* Properties of parse_netdata_metric (SpecMetric)
\* ---------------------------------------------------------------------------

Parsed == conn.pc = "parsed"

\* the except branch was taken: the result carries the payload as 'raw_data'
ParseFailed(v) == v.type = "dict" /\ "raw_data" \in DOMAIN v.map

\* C25 as stated: an 'error' payload gives exactly {'error': that value}, and
\* normalizing any result again returns the same result
C25_ErrorPassThroughIdempotent ==
  Parsed =>
    /\ HasError(conn.payload) =>
         conn.first = ErrorDict(conn.payload.map.error)
    /\ conn.passes = 2 => conn.result = conn.first

\* C25 amended: an 'error' payload gives exactly {'error': that value};
\* normalizing a result again returns the same result unless the first pass
\* failed to parse, and then the second pass keeps the message and drops
\* 'raw_data'
C25_IdempotentUnlessParseFailed ==
  Parsed =>
    /\ HasError(conn.payload) =>
         /\ conn.first = ErrorDict(conn.payload.map.error)
         /\ ~ParseFailed(conn.first)
    /\ conn.passes = 2 /\ ~ParseFailed(conn.first) =>
         conn.result = conn.first
    /\ conn.passes = 2 /\ ParseFailed(conn.first) =>
         /\ conn.result = ErrorDict(conn.first.map.error)
         /\ conn.result # conn.first

\* an 'error' payload that also carries labels and rows, normalized twice
C25_Witness ==
  /\ Parsed
  /\ conn.passes = 2
  /\ HasError(conn.payload)
  /\ "data" \in DOMAIN conn.payload.map
  /\ conn.result = ErrorDict(<<"t", "i", "m", "e", "o", "u", "t">>)

NonEmptyList(v) == v.type = "list" /\ v.items # <<>>

\* C26: a result that is not an error has 'latest' exactly when its labels
\* and its rows are both non-empty, and 'latest' then maps the label at each
\* position the first row has to the first row's value at that position
C26_LatestIffLabelsAndRows ==
  Parsed /\ conn.passes = 1 /\ ~HasError(conn.first) =>
    LET r == conn.first.map
    IN /\ "latest" \in DOMAIN r <=>
            NonEmptyList(r.labels) /\ NonEmptyList(r.data)
       /\ "latest" \in DOMAIN r =>
            LET labels == r.labels.items
                row == r.data.items[1]
                n == Min(Len(labels), Len(row))
            IN /\ DOMAIN r.latest = {labels[i] : i \in 1..n}
               /\ \A i \in 1..n : r.latest[labels[i]] = row[i]

\* two labels, two rows: 'latest' is taken from the first row
C26_Witness ==
  /\ Parsed
  /\ conn.passes = 1
  /\ ~HasError(conn.first)
  /\ Len(conn.first.map.data.items) = 2
  /\ Len(conn.first.map.labels.items) = 2
  /\ conn.first.map.latest = [time |-> 3]

\* ---------------------------------------------------------------------------
\* The tail of query_dozzle_logs (SpecConn)
\* ---------------------------------------------------------------------------

\* query_dozzle_logs returned a response with logs
LogsReturned ==
  /\ ConnReturned
  /\ conn.connector = "query_dozzle_logs"
  /\ ~conn.ret.raised
  /\ ~HasError(conn.ret.value)

\* C27: for every tail the number of returned lines is
\* min(tail, 500, number of parsed lines) and is the count the note states
C27_AtMostTailLines ==
  LogsReturned =>
    LET r == conn.ret.value.map
        shown == Min(Min(conn.request.tail, MaxTail), r.log_count)
    IN /\ Len(r.logs) = shown
       /\ r.log_count > 0 => r.note = MsgShowing(Len(r.logs), r.log_count)

\* ---------------------------------------------------------------------------
\* The earnings plugin resuming from a state file (SpecGap)
\* ---------------------------------------------------------------------------

\* the state file of an earlier run, written TickSeconds before the clock's
\* origin: both chains observed, or only eth
StoredBoth ==
  [kind |-> "dict",
   tbl |-> [eth |-> Baseline(3000, 0 - TickSeconds),
            tezos |-> Baseline(100, 0 - TickSeconds)]]

StoredEth ==
  [kind |-> "dict", tbl |-> [eth |-> Baseline(3000, 0 - TickSeconds)]]

InitGap ==
  /\ DecodeIdle
  /\ ServerIdle
  /\ PlugIdle
  /\ clock = 0
  /\ disk \in {FilePickle(StoredBoth), FilePickle(StoredEth)}
  /\ pc = "sleep"
  /\ state = EmptyDict
  /\ loaded = EmptyDict
  /\ data = EmptyMap
  /\ calcs = EmptyMap
  /\ prev = NoPrev
  /\ restarted = FALSE
  /\ inflight = 0
  /\ cycle = 0
  /\ fatalAt = "none"

SpecGap == InitGap /\ [][Next]_vars

\* the block of get_data for the prefix has run in the current cycle
Decided(p) ==
  IF p = "eth" THEN pc \in {"tezos", "save", "ret"} ELSE pc \in {"save", "ret"}

\* the fetch of the prefix failed in the current cycle
FetchFailed(p) == Decided(p) /\ p \notin DOMAIN calcs

\* the entry of a prefix in a state table, None when it has none
Entry(st, p) == IF p \in DOMAIN st.tbl THEN Some(st.tbl[p]) ELSE None

\* C30: a chain whose fetch failed has 0 in its three values, and its entry
\* in the state, and in the file once the state is saved, is the entry that
\* was loaded; a chain that was fetched in the same cycle is updated to the
\* new balance and time; and a fetched chain's rate is taken over the time
\* since the timestamp of the loaded entry
C30_FailedFetchKeepsEntry ==
  /\ \A p \in Prefixes :
       FetchFailed(p) =>
         /\ \A i \in 1..3 :
              /\ DataKeys(p)[i] \in DOMAIN data
              /\ data[DataKeys(p)[i]] = 0
         /\ Entry(state, p) = Entry(loaded, p)
         /\ (pc = "ret" /\ prev.saveOk) => Entry(disk.obj, p) = Entry(loaded, p)
  /\ \A p \in Prefixes :
       (Decided(p) /\ p \in DOMAIN calcs) =>
         /\ state.tbl[p].last_balance = calcs[p].cur
         /\ state.tbl[p].last_time = calcs[p].now
  /\ \A p \in DOMAIN calcs :
       p \in DOMAIN loaded.tbl =>
         /\ calcs[p].ret[2] = calcs[p].cur - loaded.tbl[p].last_balance
         /\ calcs[p].ret[1] =
              HourlyRate(calcs[p].cur - loaded.tbl[p].last_balance,
                         calcs[p].now - loaded.tbl[p].last_time).val

\* the eth fetch failed in the cycle at 0 while tezos was updated; the eth
\* fetch at 3600 gives 600 over the two hours since the stored timestamp
C30_Witness ==
  /\ cycle = 2
  /\ pc = "tezos"
  /\ prev.valid
  /\ prev.saveOk
  /\ "eth" \notin prev.obs
  /\ "tezos" \in prev.obs
  /\ prev.tbl["eth"] = Baseline(3000, 0 - TickSeconds)
  /\ prev.tbl["tezos"].last_time = 0
  /\ "eth" \in DOMAIN calcs
  /\ calcs["eth"].cur = 3600
  /\ calcs["eth"].now - loaded.tbl["eth"].last_time = 2 * TickSeconds
  /\ calcs["eth"].ret[1] = <<300, 1>>
  /\ data["eth_hourly_rate"] = 300

====
